---------------------------- MODULE Spec2Model ----------------------------
(***************************************************************************)
(* A model of the editable numeric field of TEC.py: the container setPV    *)
(* and the edit widget editPV (a subclass of urwid.Edit) it wraps.         *)
(*                                                                         *)
(* Text is a sequence of one-character strings; positions are Python's     *)
(* 0-based indices, so the character under the cursor is text[p + 1].      *)
(* A number is a record [neg, mant, exp] that stands for                   *)
(* (-1)^neg * mant / 10^exp; neg is kept for a zero because Python's float *)
(* keeps the sign of -0.0 and prints it.                                   *)
(***************************************************************************)
EXTENDS Integers, Sequences, FiniteSets, TLC

(***************************************************************************)
(* Bounds of the model.                                                    *)
(***************************************************************************)
\* longest text the insertion and deletion keys are pressed on: the numeric
\* texts are edited, the 12 characters of the placeholder are not
MaxLen == 7
\* insertions, deletions and steps in one run
MaxEdits == 2
\* commit keys counted in a row
MaxEnters == 3

(***************************************************************************)
(* Characters and keys.                                                    *)
(***************************************************************************)
DigitSeq == <<"0", "1", "2", "3", "4", "5", "6", "7", "8", "9">>

Digits == {DigitSeq[i] : i \in 1..10}

DigitChar(n) == DigitSeq[n + 1]

DigitValue(c) == CHOOSE n \in 0..9 : DigitSeq[n + 1] = c

\* the text urwid.Edit is constructed with, and set_edit_text("Disconnected")
Placeholder == <<"D", "i", "s", "c", "o", "n", "n", "e", "c", "t", "e", "d">>

\* the unit suffixes a field is configured with: none, or "V"
Units == {<< >>, <<"V">>}

\* the keys the model presses: the commit key, the cursor and step keys, the
\* deletion keys, three characters of the filter's alphabet and one outside it
CharKeys == {"5", ".", "-"}

CursorKeys == {"left", "right"}

StepKeys == {"up", "down"}

DeleteKeys == {"delete"}

Keys == {"enter", "q"} \cup CursorKeys \cup StepKeys \cup DeleteKeys \cup CharKeys

\* urwid's command_map: the command a key is bound to
command_map(key) ==
    CASE key = "up" -> "CURSOR_UP"
      [] key = "down" -> "CURSOR_DOWN"
      [] key = "left" -> "CURSOR_LEFT"
      [] key = "right" -> "CURSOR_RIGHT"
      [] key = "home" -> "CURSOR_MAX_LEFT"
      [] key = "end" -> "CURSOR_MAX_RIGHT"
      [] OTHER -> "None"

\* a filter that lets every one-character key through
valid_char_of_any_character(ch) ==
    ch \in Digits \cup {".", "-", "p", "q", "Q", "i", "I"}

\* editPV.valid_char: len(ch) == 1 and ch in "0123456789.-"
valid_char(ch) == ch \in Digits \cup {".", "-"}

(***************************************************************************)
(* Python's str operations on a text.                                      *)
(***************************************************************************)
\* str.find of a one-character needle: the lowest 0-based index, or -1
Find(text, ch) ==
    IF \E i \in 1..Len(text) : text[i] = ch
    THEN (CHOOSE i \in 1..Len(text) :
              text[i] = ch /\ \A j \in 1..(i - 1) : text[j] # ch) - 1
    ELSE -1

\* whether sub occurs in text at 1-based index i
OccursAt(text, sub, i) ==
    /\ i + Len(sub) - 1 <= Len(text)
    /\ \A j \in 1..Len(sub) : text[i + j - 1] = sub[j]

RECURSIVE ReplaceFrom(_, _, _)
ReplaceFrom(text, sub, i) ==
    IF i > Len(text) THEN << >>
    ELSE IF OccursAt(text, sub, i) THEN ReplaceFrom(text, sub, i + Len(sub))
    ELSE <<text[i]>> \o ReplaceFrom(text, sub, i + 1)

\* str.replace(unit, ""): every occurrence of the unit removed, left to right;
\* an empty unit leaves the text as it is
StripUnit(text, u) == IF u = << >> THEN text ELSE ReplaceFrom(text, u, 1)

(***************************************************************************)
(* Numbers: Python's float() and int() of a text, and "{:.{}f}" and "{}".  *)
(***************************************************************************)
RECURSIVE Pow10(_)
Pow10(k) == IF k = 0 THEN 1 ELSE 10 * Pow10(k - 1)

Val(n, m, e) == [neg |-> n, mant |-> m, exp |-> e]

\* the value a PV object holds before its first monitor event
NoValue == [neg |-> FALSE, mant |-> 0, exp |-> -1]

\* the digits of a text read as a decimal numeral
RECURSIVE DigitsValue(_)
DigitsValue(ds) ==
    IF ds = << >> THEN 0
    ELSE 10 * DigitsValue(SubSeq(ds, 1, Len(ds) - 1)) + DigitValue(ds[Len(ds)])

\* the decimal numeral of a natural number
RECURSIVE NatToStr(_)
NatToStr(n) ==
    IF n < 10 THEN <<DigitChar(n)>>
    ELSE NatToStr(n \div 10) \o <<DigitChar(n % 10)>>

\* the numeral of n padded with leading zeros to w digits
RECURSIVE ZeroPad(_, _)
ZeroPad(n, w) ==
    IF w = 0 THEN << >>
    ELSE ZeroPad(n \div 10, w - 1) \o <<DigitChar(n % 10)>>

Unsigned(s) == IF s # << >> /\ Head(s) = "-" THEN Tail(s) ELSE s

WithoutPoint(s) == SelectSeq(s, LAMBDA c : c # ".")

\* float(s) succeeds: an optional sign, digits with at most one point, and at
\* least one digit (no exponent, "inf" or "nan" can be spelt with the
\* characters a buffer holds)
PyFloatOK(s) ==
    LET b == Unsigned(s) IN
    /\ \A i \in 1..Len(b) : b[i] \in Digits \cup {"."}
    /\ Cardinality({i \in 1..Len(b) : b[i] = "."}) <= 1
    /\ \E i \in 1..Len(b) : b[i] \in Digits

\* float(s) that loses the sign of a negative zero
PyFloat_unsigned_zero(s) ==
    LET b == Unsigned(s)
        pt == Find(b, ".")
        m == DigitsValue(WithoutPoint(b))
    IN  Val(s # << >> /\ Head(s) = "-" /\ m # 0,
            m,
            IF pt < 0 THEN 0 ELSE Len(b) - pt - 1)

\* float(s), for a text float() accepts
PyFloat(s) ==
    LET b == Unsigned(s)
        pt == Find(b, ".")
    IN  Val(s # << >> /\ Head(s) = "-",
            DigitsValue(WithoutPoint(b)),
            IF pt < 0 THEN 0 ELSE Len(b) - pt - 1)

\* int(s) succeeds: an optional sign and at least one digit, digits only
PyIntOK(s) ==
    LET b == Unsigned(s) IN
    /\ b # << >>
    /\ \A i \in 1..Len(b) : b[i] \in Digits

\* int(s) as an integer, for a text int() accepts
PyInt(s) ==
    IF s # << >> /\ Head(s) = "-" THEN 0 - DigitsValue(Unsigned(s))
    ELSE DigitsValue(s)

\* x as a signed integer count of units of 10^-e, for e >= x.exp
Scaled(x, e) ==
    IF x.neg THEN 0 - x.mant * Pow10(e - x.exp) ELSE x.mant * Pow10(e - x.exp)

\* the float sum x + d for a nonzero d: a sum that is exactly zero is +0.0
FloatAdd(x, d) ==
    LET e == IF x.exp > d.exp THEN x.exp ELSE d.exp
        s == Scaled(x, e) + Scaled(d, e)
    IN  Val(s < 0, IF s < 0 THEN 0 - s ELSE s, e)

\* 10 ** k as a number, k an integer of either sign
TenTo(k) == IF k >= 0 THEN Val(FALSE, Pow10(k), 0) ELSE Val(FALSE, 1, 0 - k)

Negated(d) == Val(~d.neg, d.mant, d.exp)

\* the numerals x may round to at prec fractional digits.  A number with no
\* more fractional digits is exact.  Otherwise it rounds to the nearest; when
\* its decimal spelling lies half way, the float's binary expansion decides
\* the direction, and both directions are allowed here.
Rounded(x, prec) ==
    IF x.exp <= prec THEN {x.mant * Pow10(prec - x.exp)}
    ELSE LET d == Pow10(x.exp - prec)
             q == x.mant \div d
             r == x.mant % d
         IN  IF 2 * r < d THEN {q}
             ELSE IF 2 * r > d THEN {q + 1}
             ELSE {q, q + 1}

\* the text of q units of 10^-prec: the sign (kept for a negative number
\* that rounds to zero), the integer part and, for prec > 0, the point and
\* exactly prec digits
Fixed(neg, q, prec) ==
    (IF neg THEN <<"-">> ELSE << >>)
    \o NatToStr(q \div Pow10(prec))
    \o (IF prec > 0 THEN <<".">> \o ZeroPad(q % Pow10(prec), prec) ELSE << >>)

\* "{:.{}f}{}".format(x, prec, unit): the texts the format may produce
FormatFixed(x, prec, u) == {Fixed(x.neg, q, prec) \o u : q \in Rounded(x, prec)}

\* "{:.{}f}" raises for a precision that is no natural number (None, -1) and
\* for a value that is no number (None)
FormatRaises(x, prec) == prec \notin Nat \/ x = NoValue

\* "{}{}".format(n, unit) of an integer n
FormatInt(n, u) ==
    (IF n < 0 THEN <<"-">> \o NatToStr(0 - n) ELSE NatToStr(n)) \o u

(***************************************************************************)
(* The state of one editable numeric field (setPV wrapping editPV), of the *)
(* PV object it holds, and what the latest handler did.                    *)
(***************************************************************************)
VARIABLES
    conn,         \* editPV.conn
    editing,      \* setPV.editing
    edit_text,    \* editPV.edit_text
    edit_pos,     \* editPV.edit_pos
    pv_value,     \* pv.value, the value of the latest monitor event
    unit,         \* setPV.unit and editPV.unit
    s_precision,  \* setPV.display_precision
    w_precision,  \* editPV.display_precision
    exc,          \* the exception the latest handler raised, or "none"
    puts,         \* the values the latest handler wrote with pv.put
    ret,          \* what the latest keypress returned: "None" or the key
    last,         \* the latest handler, its key, and the edit state it found
    nedits,       \* insertions, deletions and steps so far
    enters        \* the commit keys the field took in a row, up to MaxEnters

\* an editable field of an enumerated variable: setPV and editPV, enum=True
VARIABLES
    enum_strs,        \* editPV.enum_strs, the table change_value captured
    enum_strs_index,  \* editPV.enum_strs_index
    pv_enum_strs      \* pv.enum_strs, the table of the variable

enumvars == <<enum_strs, enum_strs_index, pv_enum_strs>>

\* a read-only field: getPV
VARIABLES
    get_conn,       \* getPV.conn
    get_attr,       \* the attribute map of the getPV
    get_text,       \* the text of getPV.original_widget
    get_kind,       \* "numeric", "enum" (enum=True) or "script" (script given)
    get_precision,  \* getPV.display_precision
    get_unit,       \* getPV.unit
    get_value,      \* getPV.pv.value, the value of the latest monitor event
    get_stdout,     \* the output of the latest run of getPV.script
    get_last        \* the latest handler of the getPV

getvars == <<get_conn, get_attr, get_text, get_kind, get_precision, get_unit,
             get_value, get_stdout, get_last>>

\* an indicator: LED
VARIABLES
    led_connected,      \* LED.pv.connected
    led_attr,           \* the attribute map of the LED
    led_enum,           \* LED.enum
    led_script,         \* LED.script is given
    exclude_selection,  \* LED.exclude_selection
    red_values,         \* LED.red_values
    yellow_values,      \* LED.yellow_values
    green_values,       \* LED.green_values
    led_value,          \* what LED.pv holds: value, or char_value when enum
    led_stdout,         \* the output of the latest run of LED.script
    led_last            \* the latest handler of the LED

ledvars == <<led_connected, led_attr, led_enum, led_script, exclude_selection,
             red_values, yellow_values, green_values, led_value, led_stdout,
             led_last>>

\* an action field: button
VARIABLES
    has_pv,        \* button.pv_name is given: the button has a pv
    script,        \* button.script, "None" when there is none
    click_value,   \* button.click_value
    button_attr,   \* the attribute map of the button
    button_puts,   \* the values the latest handler wrote with pv.put
    button_calls,  \* the screen and subprocess calls of the latest handler
    button_exc,    \* the exception the latest handler raised, or "none"
    button_last    \* the latest handler of the button

buttonvars == <<has_pv, script, click_value, button_attr, button_puts,
                button_calls, button_exc, button_last>>

\* the macro pass of parseConfig over the text of a page document
VARIABLES
    source,        \* the text of the file, as inputFile.read() returned it
    readFile,      \* parseConfig's readFile
    macro,         \* the macro values of the command line, << >> when none
    macroIndex,    \* the iterations of the macro loop that have run
    prompts,       \* the indices input() has asked about
    macro_before   \* readFile before the latest iteration

macrovars == <<source, readFile, macro, macroIndex, prompts, macro_before>>

\* the rest of parseConfig, over the document yaml.load returned
VARIABLES
    file_doc,    \* the document in the file: rows of field declarations
    pageConfig,  \* parseConfig's pageConfig, which the loop pops keys from
    header,      \* parseConfig's header argument
    verbose,     \* parseConfig's verbose argument
    page,        \* what the latest parseConfig returned
    parse_exc,   \* the exception the latest parseConfig raised
    bindings,    \* the names of the PV objects the latest parseConfig created
    printed,     \* the field declarations the latest parseConfig printed
    parses,      \* the calls of parseConfig so far
    first_page   \* what the first parseConfig returned

parsevars == <<file_doc, pageConfig, header, verbose, page, parse_exc,
               bindings, printed, parses, first_page>>

\* the page at run time: terminal_client and the MainLoop it runs
VARIABLES
    focus,         \* the field of the page that has the focus
    pop_up,        \* the information pop-up of that field is open
    loop,          \* MainLoop.run: "running", "exited" or "crashed"
    loop_last,     \* what the latest key press did
    unsubscribes   \* the callbacks taken off a PV object so far

loopvars == <<focus, pop_up, loop, loop_last, unsubscribes>>

\* two step keys pressed one after the other on a buffer
VARIABLES
    steps    \* the step keys pressed so far, each with what it found

stepvars == <<steps>>

\* editPV.keypress of a step key, statement by statement, while the
\* provider's threads call the callbacks
VARIABLES
    kp_pc,         \* where keypress is: "idle", "guarded", "read" or "set"
    kp_key,        \* its key
    kp_p,          \* its local p
    kp_point_pos,  \* its local point_pos
    kp_read,       \* the edit_text its argument of set_edit_text was read from
    kp_text,       \* the argument of set_edit_text, evaluated
    writer,        \* the thread that wrote the field's state last
    overwritten    \* a callback changed the buffer between the read and the set

threadvars == <<kp_pc, kp_key, kp_p, kp_point_pos, kp_read, kp_text, writer,
                overwritten>>

\* the command line, the terminal_client made from it and its alarms
VARIABLES
    args_config,  \* args.config is given, and whether yaml_path has the file
    args_time,    \* args.time, in tenths of a second
    screen,       \* "None", "constructed", "running" or "exited"
    update_rate,  \* terminal_client.update_rate, in tenths of a second
    alarms,       \* the periods of the alarms pending on the event loop
    ticks         \* the alarms that have fired

refreshvars == <<args_config, args_time, screen, update_rate, alarms, ticks>>

\* the state of the runs that look at one handler or at the command line
runvars == <<stepvars, threadvars, refreshvars>>

\* the state of the document passes and of the loop, which no field touches
pagevars == <<macrovars, parsevars, loopvars, runvars>>

setvars == <<conn, editing, edit_text, edit_pos, pv_value, unit, s_precision,
             w_precision, exc, puts, ret, last, nedits, enters>>

\* the state of the other fields, which a numeric editable field leaves alone
NotSetPV == <<enumvars, getvars, ledvars, buttonvars, pagevars>>

\* what an editable field of an enumerated variable leaves alone
NotEnum == <<getvars, ledvars, buttonvars, pagevars>>

\* what a read-only field, an indicator and an action field leave alone
NotGet == <<setvars, enumvars, ledvars, buttonvars, pagevars>>

NotLED == <<setvars, enumvars, getvars, buttonvars, pagevars>>

NotButton == <<setvars, enumvars, getvars, ledvars, pagevars>>

\* what the macro pass leaves alone
NotMacro ==
    <<setvars, enumvars, getvars, ledvars, buttonvars, parsevars, loopvars,
      runvars>>

\* what the parse of a document leaves alone
NotParse ==
    <<setvars, enumvars, getvars, ledvars, buttonvars, macrovars, loopvars,
      runvars>>

vars == <<conn, editing, edit_text, edit_pos, pv_value, unit, s_precision,
          w_precision, exc, puts, ret, last, nedits, enters, NotSetPV>>

\* a field of enum=False captures no table
EnumUnused ==
    /\ enum_strs = << >>
    /\ enum_strs_index = 0
    /\ pv_enum_strs = << >>

\* a page without a read-only field
GetUnused ==
    /\ get_conn = FALSE
    /\ get_attr = "disconnected"
    /\ get_text = << >>
    /\ get_kind = "numeric"
    /\ get_precision = 0
    /\ get_unit = << >>
    /\ get_value = << >>
    /\ get_stdout = << >>
    /\ get_last = "init"

\* a page without an indicator
LedUnused ==
    /\ led_connected = FALSE
    /\ led_attr = "disconnected"
    /\ led_enum = FALSE
    /\ led_script = FALSE
    /\ exclude_selection = FALSE
    /\ red_values = {}
    /\ yellow_values = {}
    /\ green_values = {}
    /\ led_value = << >>
    /\ led_stdout = << >>
    /\ led_last = "init"

\* a page without an action field
ButtonUnused ==
    /\ has_pv = FALSE
    /\ script = "None"
    /\ click_value = 0
    /\ button_attr = "None"
    /\ button_puts = << >>
    /\ button_calls = << >>
    /\ button_exc = "none"
    /\ button_last = "init"

\* a page without an editable field
SetPVUnused ==
    /\ conn = FALSE
    /\ editing = FALSE
    /\ edit_text = << >>
    /\ edit_pos = 0
    /\ pv_value = << >>
    /\ unit = << >>
    /\ s_precision = 0
    /\ w_precision = 0
    /\ exc = "none"
    /\ puts = << >>
    /\ ret = "None"
    /\ last = [op |-> "init", key |-> "", was_editing |-> FALSE]
    /\ nedits = 0
    /\ enters = 0

\* no macro pass is running
MacroUnused ==
    /\ source = << >>
    /\ readFile = << >>
    /\ macro = << >>
    /\ macroIndex = 0
    /\ prompts = << >>
    /\ macro_before = << >>

\* what parseConfig has when it has not returned or raised
NoPage == [kind |-> "none"]

NoException == [name |-> "none"]

\* no document is being parsed
ParseUnused ==
    /\ file_doc = << >>
    /\ pageConfig = << >>
    /\ header = FALSE
    /\ verbose = FALSE
    /\ page = NoPage
    /\ parse_exc = NoException
    /\ bindings = << >>
    /\ printed = << >>
    /\ parses = 0
    /\ first_page = NoPage

\* no key has been pressed
NoKey == [key |-> "", reached |-> "None", changed |-> FALSE, wrote |-> FALSE]

\* the loop is not looked at
LoopUnused ==
    /\ focus = "none"
    /\ pop_up = FALSE
    /\ loop = "running"
    /\ loop_last = NoKey
    /\ unsubscribes = 0

\* no step keys are followed
StepUnused == steps = << >>

\* keypress is not taken apart
ThreadUnused ==
    /\ kp_pc = "idle"
    /\ kp_key = ""
    /\ kp_p = 0
    /\ kp_point_pos = 0
    /\ kp_read = << >>
    /\ kp_text = << >>
    /\ writer = "none"
    /\ overwritten = FALSE

\* the command line is not looked at
RefreshUnused ==
    /\ args_config = "None"
    /\ args_time = 0
    /\ screen = "None"
    /\ update_rate = 0
    /\ alarms = << >>
    /\ ticks = 0

RunUnused == StepUnused /\ ThreadUnused /\ RefreshUnused

\* no document is being read and the loop is not looked at
PageUnused == MacroUnused /\ ParseUnused /\ LoopUnused /\ RunUnused

\* the fields that are not on the page
NoOtherField ==
    EnumUnused /\ GetUnused /\ LedUnused /\ ButtonUnused /\ PageUnused

\* display_precision=-1, the default of setPV and editPV: no precision given
Unset == -1

\* pv.precision read before the provider has connected
PrecisionNone == -2

\* the values monitor events carry: 12.5 and -0.05
Values == {Val(FALSE, 125, 1), Val(TRUE, 5, 2)}

\* the precisions a field is configured with
Precisions == {0, 2}

\* setPV.__init__ and editPV.__init__, as <<setPV.display_precision,
\* editPV.display_precision, unit>>: an explicit precision is taken by both;
\* without one setPV keeps -1 and editPV reads pv.precision from a PV object
\* created the line before, which has not connected: None.  The unit "V" is
\* tried with the precision 2.
Configurations ==
    {<<p, p, << >> >> : p \in Precisions}
    \cup {<<2, 2, u>> : u \in Units}
    \cup {<<Unset, PrecisionNone, << >> >>}

\* setPV.__init__ and editPV.__init__
setPV_init ==
    /\ conn = FALSE
    /\ editing = FALSE
    /\ edit_text = Placeholder
    /\ edit_pos = Len(Placeholder)
    /\ pv_value = NoValue
    /\ \E c \in Configurations :
           /\ s_precision = c[1]
           /\ w_precision = c[2]
           /\ unit = c[3]
    /\ exc = "none"
    /\ puts = << >>
    /\ ret = "None"
    /\ last = [op |-> "init", key |-> "", was_editing |-> FALSE]
    /\ nedits = 0
    /\ enters = 0

Init == setPV_init /\ NoOtherField

\* an exception raised by a key handler leaves MainLoop.run: the loop ends
Halted == last.op = "key" /\ exc # "none"

\* urwid.Edit.set_edit_text: the cursor is pulled back to the end of the text
Clamp(pos, text) == IF pos > Len(text) THEN Len(text) ELSE pos

(***************************************************************************)
(* editPV.write_value, numeric mode, on the text and cursor the caller     *)
(* left.                                                                   *)
(***************************************************************************)
\* the texts write_value does not parse
BareText(text) == text \in {<< >>, <<"-">>, <<".">>, <<"-", ".">>}

write_value(text, pos) ==
    IF BareText(text)
    THEN IF FormatRaises(pv_value, w_precision)
         THEN /\ edit_text' = text
              /\ edit_pos' = pos
              /\ puts' = << >>
              /\ exc' = "ValueError"
         ELSE \E t \in FormatFixed(pv_value, w_precision, unit) :
                  /\ edit_text' = t
                  /\ edit_pos' = Clamp(pos, t)
                  /\ puts' = << >>
                  /\ exc' = "none"
    ELSE IF ~PyFloatOK(StripUnit(text, unit))
         THEN /\ edit_text' = text
              /\ edit_pos' = pos
              /\ puts' = << >>
              /\ exc' = "ValueError"
         ELSE /\ edit_text' = text
              /\ edit_pos' = pos
              /\ puts' = <<PyFloat(StripUnit(text, unit))>>
              /\ exc' = "none"

\* a handler that raises before it changed the text
Raise ==
    /\ exc' = "ValueError"
    /\ puts' = << >>
    /\ UNCHANGED <<edit_text, edit_pos>>

\* a handler that returns without touching the widget
Untouched ==
    /\ exc' = "none"
    /\ puts' = << >>
    /\ UNCHANGED <<edit_text, edit_pos>>

(***************************************************************************)
(* editPV.keypress, numeric mode: the step keys.                           *)
(***************************************************************************)
\* the guard of CURSOR_UP and CURSOR_DOWN: the cursor is at or past the end,
\* or on the point or on a sign
StepRefused(text, p) ==
    \/ p >= Len(text)
    \/ text[p + 1] = "."
    \/ text[p + 1] = "-"

\* the exponent taken as the cursor's distance from the point on its left
StepExponent_by_distance(text, p, point_pos) ==
    IF point_pos >= 0
    THEN IF point_pos < p
         THEN (0 - 1) * (p - point_pos)
         ELSE point_pos - p
    ELSE Len(text) - p - 1

\* the exponent k of the step 10 ** k, for a text with a point at point_pos
\* and for a text without one (point_pos = -1)
StepExponent(text, p, point_pos) ==
    IF point_pos >= 0
    THEN IF point_pos < p
         THEN (0 - 1) * (p - point_pos)
         ELSE (0 - 1) * (p + 1 - point_pos)
    ELSE Len(text) - p - 1

\* self.edit_text[p] == 1 in CURSOR_DOWN: a str compared with an int
CharEqualsOne(c) == FALSE

\* the text a step renders and the write that follows; sign is 1 or -1
StepRender(sign) ==
    LET p == edit_pos
        point_pos == Find(edit_text, ".")
        s == StripUnit(edit_text, unit)
        k == StepExponent(edit_text, p, point_pos)
        d == IF sign > 0 THEN TenTo(k) ELSE Negated(TenTo(k))
    IN  IF point_pos >= 0
        THEN IF \/ ~PyFloatOK(s)
                \/ FormatRaises(PyFloat(s), w_precision)
                \/ (sign < 0 /\ point_pos >= p /\ CharEqualsOne(edit_text[p + 1]))
             THEN Raise
             ELSE \E t \in FormatFixed(FloatAdd(PyFloat(s), d), w_precision, unit) :
                      write_value(t, Clamp(p, t))
        ELSE IF ~PyIntOK(s)
             THEN Raise
             ELSE LET t == FormatInt(PyInt(s) + sign * Pow10(k), unit)
                  IN  write_value(t, Clamp(p, t))

Step(sign) ==
    /\ ret' = "None"
    /\ IF StepRefused(edit_text, edit_pos)
       THEN Untouched /\ nedits' = nedits
       ELSE /\ nedits < MaxEdits
            /\ nedits' = nedits + 1
            /\ StepRender(sign)

(***************************************************************************)
(* urwid.Edit.keypress, which editPV.keypress ends in.                     *)
(***************************************************************************)
InsertAt(text, p, ch) == SubSeq(text, 1, p) \o <<ch>> \o SubSeq(text, p + 1, Len(text))

RemoveAt(text, p) == SubSeq(text, 1, p) \o SubSeq(text, p + 2, Len(text))

\* a key the widget took: nothing raised, nothing written, None returned
Taken(text, pos) ==
    /\ edit_text' = text
    /\ edit_pos' = pos
    /\ exc' = "none"
    /\ puts' = << >>
    /\ ret' = "None"

\* a key the widget hands back to its parent
Unhandled(key) ==
    /\ Untouched
    /\ ret' = key
    /\ nedits' = nedits

Edit_keypress(key) ==
    LET p == edit_pos
        n == Len(edit_text)
        cmd == command_map(key)
    IN  IF valid_char(key)
        THEN /\ n < MaxLen
             /\ nedits < MaxEdits
             /\ nedits' = nedits + 1
             /\ Taken(InsertAt(edit_text, p, key), p + 1)
        ELSE IF cmd = "CURSOR_LEFT"
        THEN IF p = 0 THEN Unhandled(key)
             ELSE Taken(edit_text, p - 1) /\ nedits' = nedits
        ELSE IF cmd = "CURSOR_RIGHT"
        THEN IF p >= n THEN Unhandled(key)
             ELSE Taken(edit_text, p + 1) /\ nedits' = nedits
        ELSE IF cmd \in {"CURSOR_UP", "CURSOR_DOWN"}
        THEN Unhandled(key)
        ELSE IF key = "backspace"
        THEN IF p = 0 THEN Unhandled(key)
             ELSE /\ n <= MaxLen
                  /\ nedits < MaxEdits
                  /\ nedits' = nedits + 1
                  /\ Taken(RemoveAt(edit_text, p - 1), p - 1)
        ELSE IF key = "delete"
        THEN IF p >= n THEN Unhandled(key)
             ELSE /\ n <= MaxLen
                  /\ nedits < MaxEdits
                  /\ nedits' = nedits + 1
                  /\ Taken(RemoveAt(edit_text, p), p)
        ELSE IF cmd = "CURSOR_MAX_LEFT"
        THEN Taken(edit_text, 0) /\ nedits' = nedits
        ELSE IF cmd = "CURSOR_MAX_RIGHT"
        THEN Taken(edit_text, n) /\ nedits' = nedits
        ELSE Unhandled(key)

(***************************************************************************)
(* editPV.keypress, numeric mode.                                          *)
(***************************************************************************)
\* a key editPV swallows: None returned, nothing changed
Swallowed ==
    /\ Untouched
    /\ ret' = "None"
    /\ nedits' = nedits

\* the character filter: a second point, or a sign away from position 0
FilterRejects(key, text, p) ==
    \/ key = "." /\ Find(text, ".") >= 0
    \/ key = "-" /\ p # 0

editPV_keypress(key) ==
    LET p == edit_pos
        cmd == command_map(key)
    IN  IF cmd = "CURSOR_LEFT" /\ p = 0 THEN Swallowed
        ELSE IF cmd = "CURSOR_RIGHT" /\ p >= Len(edit_text) THEN Swallowed
        ELSE IF cmd = "CURSOR_UP" THEN Step(1)
        ELSE IF cmd = "CURSOR_DOWN" THEN Step(0 - 1)
        ELSE IF cmd \notin {"CURSOR_LEFT", "CURSOR_RIGHT"}
                /\ FilterRejects(key, edit_text, p) THEN Swallowed
        ELSE Edit_keypress(key)

(***************************************************************************)
(* setPV.keypress.                                                         *)
(***************************************************************************)
\* the commit key normalizes a text that has a point and is not "." or "-."
Normalizes(text) ==
    /\ Find(text, ".") >= 0
    /\ text # <<".">>
    /\ text # <<"-", ".">>

\* the commit key in Editing
Commit ==
    /\ editing' = FALSE
    /\ ret' = "None"
    /\ nedits' = nedits
    /\ IF Normalizes(edit_text)
       THEN LET s == StripUnit(edit_text, unit) IN
            IF ~PyFloatOK(s) \/ FormatRaises(PyFloat(s), w_precision)
            THEN Raise
            ELSE \E t \in FormatFixed(PyFloat(s), w_precision, unit) :
                     write_value(t, Clamp(edit_pos, t))
       ELSE write_value(edit_text, edit_pos)

\* StartEdit without "set_edit_pos(0)"
StartEdit_keeps_cursor ==
    /\ editing' = TRUE
    /\ Taken(edit_text, edit_pos)
    /\ nedits' = nedits

\* the commit key in Viewing
StartEdit ==
    /\ editing' = TRUE
    /\ Taken(edit_text, 0)
    /\ nedits' = nedits

\* setPV.keypress that hands the key to editPV whatever self.editing is
setPV_keypress_without_editing_check(key) ==
    IF conn /\ key = "enter"
    THEN IF editing THEN Commit ELSE StartEdit
    ELSE IF conn
    THEN UNCHANGED editing /\ editPV_keypress(key)
    ELSE editing' = FALSE /\ Unhandled(key)

setPV_keypress(key) ==
    IF conn /\ key = "enter"
    THEN IF editing THEN Commit ELSE StartEdit
    ELSE IF conn /\ editing
    THEN editing' = TRUE /\ editPV_keypress(key)
    ELSE editing' = FALSE /\ Unhandled(key)

KeyPress ==
    /\ ~Halted
    /\ \E key \in Keys :
           /\ last' = [op |-> "key", key |-> key, was_editing |-> editing]
           /\ setPV_keypress(key)
           /\ enters' = IF conn /\ key = "enter"
                        THEN (IF enters < MaxEnters THEN enters + 1 ELSE enters)
                        ELSE 0
    /\ UNCHANGED <<conn, pv_value, unit, s_precision, w_precision, NotSetPV>>

(***************************************************************************)
(* The provider's callbacks.                                               *)
(***************************************************************************)
\* on_connection_change without "self.editing = False"
on_connection_change_keeps_editing(c) ==
    /\ conn' = c
    /\ IF c
       THEN UNCHANGED <<edit_text, edit_pos>>
       ELSE /\ edit_text' = Placeholder
            /\ edit_pos' = Clamp(edit_pos, Placeholder)
    /\ UNCHANGED editing
    /\ exc' = "none"
    /\ puts' = << >>

\* setPV.on_connection_change
on_connection_change(c) ==
    /\ conn' = c
    /\ IF c
       THEN UNCHANGED <<editing, edit_text, edit_pos>>
       ELSE /\ editing' = FALSE
            /\ edit_text' = Placeholder
            /\ edit_pos' = Clamp(edit_pos, Placeholder)
    /\ exc' = "none"
    /\ puts' = << >>

ConnectionChange ==
    /\ ~Halted
    /\ \E c \in {~conn} :
           /\ last' = [op |-> IF c THEN "connected" ELSE "disconnected",
                        key |-> "", was_editing |-> editing]
           /\ on_connection_change(c)
    /\ enters' = 0
    /\ UNCHANGED <<pv_value, unit, s_precision, w_precision, ret, nedits,
                   NotSetPV>>

\* setPV.change_value, numeric mode, after the PV object took the value v
change_value(v) ==
    IF FormatRaises(v, s_precision)
    THEN Raise
    ELSE \E t \in FormatFixed(v, s_precision, unit) :
             /\ edit_text' = t
             /\ edit_pos' = Clamp(edit_pos, t)
             /\ exc' = "none"
             /\ puts' = << >>

ValueChange ==
    /\ ~Halted
    /\ \E v \in Values :
           /\ pv_value' = v
           /\ change_value(v)
    /\ last' = [op |-> "value", key |-> "", was_editing |-> editing]
    /\ enters' = 0
    /\ UNCHANGED <<conn, editing, unit, s_precision, w_precision, ret, nedits,
                   NotSetPV>>

(***************************************************************************)
(* The event loop: key presses and the provider's notifications, one       *)
(* handler at a time.                                                      *)
(***************************************************************************)
Next == KeyPress \/ ConnectionChange \/ ValueChange

Spec == Init /\ [][Next]_vars

(***************************************************************************)
(* The editable field of an enumerated variable: setPV and editPV with     *)
(* enum=True.  The field has no unit; the edit widget got its precision as *)
(* a numeric field does.                                                   *)
(***************************************************************************)
Off == <<"O", "f", "f">>

On == <<"O", "n">>

V1_5 == <<"1", ".", "5">>

NoEnum == <<"N", "o", " ", "e", "n", "u", "m">>

\* the string tables of the variables: none, and three strings
Tables == {<< >>, <<Off, V1_5, On>>}

\* the precisions of the edit widget: pv.precision read too early, 1 and 2
EnumPrecisions == {PrecisionNone, 1, 2}

\* the values the variable takes: the indices of its table, 0 without one
Indices(table) == IF table = << >> THEN {0} ELSE 0..(Len(table) - 1)

\* int(pv.value)
IndexOf(v) == v.mant \div Pow10(v.exp)

EnumKeys == {"enter", "up", "down", "left", "p", "delete", "5"}

\* setPV.__init__ and editPV.__init__, enum=True
enum_setPV_init ==
    /\ conn = FALSE
    /\ editing = FALSE
    /\ edit_text = Placeholder
    /\ edit_pos = Len(Placeholder)
    /\ pv_enum_strs \in Tables
    /\ pv_value \in {Val(FALSE, i, 0) : i \in Indices(pv_enum_strs)}
    /\ enum_strs = << >>
    /\ enum_strs_index = 0
    /\ unit = << >>
    /\ s_precision = Unset
    /\ w_precision \in EnumPrecisions
    /\ exc = "none"
    /\ puts = << >>
    /\ ret = "None"
    /\ last = [op |-> "init", key |-> "", was_editing |-> FALSE]
    /\ nedits = 0
    /\ enters = 0

EnumInit ==
    enum_setPV_init /\ GetUnused /\ LedUnused /\ ButtonUnused /\ PageUnused

\* set_edit_text(table[i]), which raises IndexError past the end of the table
ShowEntry(table, i) ==
    IF i < Len(table)
    THEN /\ edit_text' = table[i + 1]
         /\ edit_pos' = Clamp(edit_pos, table[i + 1])
         /\ exc' = "none"
         /\ puts' = << >>
    ELSE /\ exc' = "IndexError"
         /\ puts' = << >>
         /\ UNCHANGED <<edit_text, edit_pos>>

\* editPV.keypress, enum mode
enum_editPV_keypress(key) ==
    LET cmd == command_map(key)
    IN  IF cmd \in {"CURSOR_RIGHT", "CURSOR_LEFT"}
        THEN Swallowed /\ UNCHANGED enum_strs_index
        ELSE IF cmd = "CURSOR_UP"
        THEN IF enum_strs_index = Len(enum_strs) - 1
             THEN Swallowed /\ UNCHANGED enum_strs_index
             ELSE /\ enum_strs_index' = enum_strs_index + 1
                  /\ ShowEntry(pv_enum_strs, enum_strs_index + 1)
                  /\ ret' = "None"
                  /\ nedits' = nedits
        ELSE IF cmd = "CURSOR_DOWN"
        THEN IF enum_strs_index = 0
             THEN Swallowed /\ UNCHANGED enum_strs_index
             ELSE /\ enum_strs_index' = enum_strs_index - 1
                  /\ ShowEntry(pv_enum_strs, enum_strs_index - 1)
                  /\ ret' = "None"
                  /\ nedits' = nedits
        ELSE IF key = "p"
        THEN /\ ShowEntry(pv_enum_strs, IndexOf(pv_value))
             /\ ret' = "None"
             /\ nedits' = nedits
             /\ UNCHANGED enum_strs_index
        ELSE Edit_keypress(key) /\ UNCHANGED enum_strs_index

\* editPV.write_value, enum mode, on the text and cursor the caller left
enum_write_value(text, pos) ==
    IF \E i \in 1..Len(enum_strs) : enum_strs[i] = text
    THEN /\ puts' = <<Val(FALSE, enum_strs_index, 0)>>
         /\ edit_text' = text
         /\ edit_pos' = pos
         /\ exc' = "none"
         /\ UNCHANGED enum_strs_index
    ELSE /\ enum_strs_index' = IndexOf(pv_value)
         /\ puts' = << >>
         /\ IF IndexOf(pv_value) < Len(enum_strs)
            THEN /\ edit_text' = enum_strs[IndexOf(pv_value) + 1]
                 /\ edit_pos' = Clamp(pos, enum_strs[IndexOf(pv_value) + 1])
                 /\ exc' = "none"
            ELSE /\ edit_text' = text
                 /\ edit_pos' = pos
                 /\ exc' = "IndexError"

\* the commit key in Editing, enum mode
enum_Commit ==
    /\ editing' = FALSE
    /\ ret' = "None"
    /\ nedits' = nedits
    /\ IF Normalizes(edit_text)
       THEN LET s == StripUnit(edit_text, unit) IN
            IF ~PyFloatOK(s) \/ FormatRaises(PyFloat(s), w_precision)
            THEN Raise /\ UNCHANGED enum_strs_index
            ELSE \E t \in FormatFixed(PyFloat(s), w_precision, unit) :
                     enum_write_value(t, Clamp(edit_pos, t))
       ELSE enum_write_value(edit_text, edit_pos)

\* setPV.keypress, enum mode
enum_setPV_keypress(key) ==
    IF conn /\ key = "enter"
    THEN IF editing THEN enum_Commit
         ELSE StartEdit /\ UNCHANGED enum_strs_index
    ELSE IF conn /\ editing
    THEN editing' = TRUE /\ enum_editPV_keypress(key)
    ELSE editing' = FALSE /\ Unhandled(key) /\ UNCHANGED enum_strs_index

EnumKeyPress ==
    /\ ~Halted
    /\ \E key \in EnumKeys :
           /\ last' = [op |-> "key", key |-> key, was_editing |-> editing]
           /\ enum_setPV_keypress(key)
    /\ UNCHANGED <<conn, pv_value, unit, s_precision, w_precision, enters,
                   enum_strs, pv_enum_strs, NotEnum>>

EnumConnectionChange ==
    /\ ~Halted
    /\ \E c \in {~conn} :
           /\ last' = [op |-> IF c THEN "connected" ELSE "disconnected",
                        key |-> "", was_editing |-> editing]
           /\ on_connection_change(c)
    /\ UNCHANGED <<pv_value, unit, s_precision, w_precision, ret, nedits,
                   enters, enumvars, NotEnum>>

\* setPV.change_value, enum mode, after the PV object took the value v
enum_change_value(v) ==
    /\ enum_strs' = pv_enum_strs
    /\ enum_strs_index' = IndexOf(v)
    /\ IF pv_enum_strs # << >>
       THEN ShowEntry(pv_enum_strs, IndexOf(v))
       ELSE /\ edit_text' = NoEnum
            /\ edit_pos' = Clamp(edit_pos, NoEnum)
            /\ exc' = "none"
            /\ puts' = << >>

EnumValueChange ==
    /\ ~Halted
    /\ \E i \in Indices(pv_enum_strs) :
           /\ pv_value' = Val(FALSE, i, 0)
           /\ enum_change_value(Val(FALSE, i, 0))
    /\ last' = [op |-> "value", key |-> "", was_editing |-> editing]
    /\ UNCHANGED <<conn, editing, unit, s_precision, w_precision, ret, nedits,
                   enters, pv_enum_strs, NotEnum>>

EnumNext == EnumKeyPress \/ EnumConnectionChange \/ EnumValueChange

SpecEnum == EnumInit /\ [][EnumNext]_vars

(***************************************************************************)
(* The output of an auxiliary command, as subprocess.run returns it.       *)
(***************************************************************************)
NL == "\n"

\* output.count("\n")
CountNL(output) == Cardinality({i \in 1..Len(output) : output[i] = NL})

\* output.replace("\n", "")
WithoutNL(output) == SelectSeq(output, LAMBDA c : c # NL)

\* what a command prints: nothing, a line with and without its newline, two
\* lines with and without the last newline
Outputs ==
    {<< >>,
     <<"O", "n">>,
     <<"O", "n", NL>>,
     <<"O", "n", NL, "O", "f", "f">>,
     <<"O", "n", NL, "O", "f", "f", NL>>}

(***************************************************************************)
(* The read-only field: getPV, shown in fixed notation (scientific=False). *)
(***************************************************************************)
InvalidOutput ==
    <<"I", "n", "v", "a", "l", "i", "d", " ", "o", "u", "t", "p", "u", "t",
      " ", "f", "r", "o", "m", " ", "s", "t", "r", "i", "n", "g">>

\* getPV.__init__: a script turns enum off; a precision below 0 is replaced
\* by pv.precision, read from a PV object that has not connected
GetConfigurations ==
    {<<"numeric", p, << >> >> : p \in {0, 2, PrecisionNone}}
    \cup {<<"numeric", 2, u>> : u \in Units}
    \cup {<<k, PrecisionNone, << >> >> : k \in {"enum", "script"}}

\* the values monitor events carry: 12.34 and -0.05, or the index of a state
GetValues(kind) ==
    IF kind = "enum"
    THEN {Val(FALSE, 0, 0), Val(FALSE, 1, 0)}
    ELSE {Val(FALSE, 1234, 2), Val(TRUE, 5, 2)}

\* pv.char_value of an enumerated variable: the string of the state
char_value(v) == <<Off, On>>[IndexOf(v) + 1]

\* getPV.__init__
getPV_init ==
    /\ get_conn = FALSE
    /\ get_attr = "disconnected"
    /\ get_text = Placeholder
    /\ \E c \in GetConfigurations :
           /\ get_kind = c[1]
           /\ get_precision = c[2]
           /\ get_unit = c[3]
    /\ get_value = NoValue
    /\ get_stdout = << >>
    /\ get_last = "init"

GetInit ==
    /\ getPV_init
    /\ SetPVUnused /\ EnumUnused /\ LedUnused /\ ButtonUnused /\ PageUnused

\* getPV.on_connection_change
get_on_connection_change(c) ==
    /\ get_conn' = c
    /\ get_attr' = IF c THEN "getPV" ELSE "disconnected"
    /\ get_text' = IF c THEN get_text ELSE Placeholder
    /\ UNCHANGED get_stdout

GetConnectionChange ==
    /\ \E c \in {~get_conn} :
           /\ get_on_connection_change(c)
           /\ get_last' = IF c THEN "connected" ELSE "disconnected"
    /\ UNCHANGED <<get_kind, get_precision, get_unit, get_value, NotGet>>

\* the text the script branch shows for an output
ScriptText(output) ==
    IF CountNL(output) > 1 THEN InvalidOutput ELSE WithoutNL(output)

\* getPV.change_value that renders the first value only
get_change_value_once(v) ==
    IF get_text = Placeholder /\ ~FormatRaises(v, get_precision)
    THEN /\ get_text' \in FormatFixed(v, get_precision, get_unit)
         /\ UNCHANGED get_stdout
    ELSE UNCHANGED <<get_text, get_stdout>>

\* getPV.change_value, after the PV object took the value v; a format that
\* raises leaves the text as it was
get_change_value(v) ==
    IF get_kind = "script"
    THEN \E output \in Outputs :
             /\ get_stdout' = output
             /\ get_text' = ScriptText(output)
    ELSE IF get_kind = "enum"
    THEN /\ get_text' = char_value(v)
         /\ UNCHANGED get_stdout
    ELSE IF FormatRaises(v, get_precision)
    THEN UNCHANGED <<get_text, get_stdout>>
    ELSE /\ get_text' \in FormatFixed(v, get_precision, get_unit)
         /\ UNCHANGED get_stdout

GetValueChange ==
    /\ \E v \in GetValues(get_kind) :
           /\ get_value' = v
           /\ get_change_value(v)
    /\ get_last' = "value"
    /\ UNCHANGED <<get_conn, get_attr, get_kind, get_precision, get_unit,
                   NotGet>>

GetNext == GetConnectionChange \/ GetValueChange

SpecGet == GetInit /\ [][GetNext]_vars

(***************************************************************************)
(* The indicator: LED.  A value is written as its text, so that a number   *)
(* and a string are never equal; << >> is None or the empty string.        *)
(***************************************************************************)
LedNumbers == {<<"0">>, <<"1">>, <<"2">>, <<"5">>}

\* LED.__init__, as <<enum, script, exclude_selection, red_values,
\* yellow_values, green_values>>
LedConfigurations ==
    {<<FALSE, FALSE, x, r, y, g>> :
        x \in BOOLEAN, r \in SUBSET {<<"0">>, <<"1">>},
        y \in SUBSET {<<"0">>, <<"1">>}, g \in {{}, {<<"2">>}}}
    \cup {<<TRUE, s, x, r, y, {}>> :
        s \in BOOLEAN, x \in BOOLEAN, r \in {{}, {On}}, y \in {{}, {Off}}}
    \cup {<<FALSE, TRUE, x, r, {}, {}>> : x \in BOOLEAN, r \in {{}, {On}}}

\* what a monitor event carries: value, or char_value for an enum LED
LedValues == IF led_enum THEN {<< >>, Off, On} ELSE LedNumbers

LedInit ==
    /\ led_connected = FALSE
    /\ led_attr = "disconnected"
    /\ \E c \in LedConfigurations :
           /\ led_enum = c[1]
           /\ led_script = c[2]
           /\ exclude_selection = c[3]
           /\ red_values = c[4]
           /\ yellow_values = c[5]
           /\ green_values = c[6]
    /\ led_value = << >>
    /\ led_stdout = << >>
    /\ led_last = "init"
    /\ SetPVUnused /\ EnumUnused /\ GetUnused /\ ButtonUnused /\ PageUnused

\* the chain of LED.change_value with a set matching whenever the value is
\* absent from it, empty or not
LED_category_without_empty_check(value) ==
    IF exclude_selection
    THEN IF value \notin red_values THEN "red_LED_on"
         ELSE IF value \notin yellow_values THEN "yellow_LED_on"
         ELSE IF value \notin green_values THEN "green_LED_on"
         ELSE "LED_off"
    ELSE IF value \in red_values THEN "red_LED_on"
         ELSE IF value \in yellow_values THEN "yellow_LED_on"
         ELSE IF value \in green_values THEN "green_LED_on"
         ELSE "LED_off"

\* the if/elif chain of LED.change_value, change_value_enum and
\* change_value_script: the attribute the value gets
LED_category(value) ==
    IF exclude_selection
    THEN IF value \notin red_values /\ red_values # {} THEN "red_LED_on"
         ELSE IF value \notin yellow_values /\ yellow_values # {}
         THEN "yellow_LED_on"
         ELSE IF value \notin green_values /\ green_values # {}
         THEN "green_LED_on"
         ELSE "LED_off"
    ELSE IF value \in red_values THEN "red_LED_on"
         ELSE IF value \in yellow_values THEN "yellow_LED_on"
         ELSE IF value \in green_values THEN "green_LED_on"
         ELSE "LED_off"

\* LED.change_value
led_change_value(value) ==
    /\ led_attr' = LED_category(value)
    /\ UNCHANGED led_stdout

\* LED.change_value_enum
led_change_value_enum(cv) ==
    /\ led_attr' = IF cv # << >> THEN LED_category(cv) ELSE led_attr
    /\ UNCHANGED led_stdout

\* LED.change_value_script
led_change_value_script(value) ==
    \E output \in Outputs :
        /\ led_stdout' = output
        /\ led_attr' = IF CountNL(output) > 1 THEN "head"
                       ELSE LED_category(WithoutNL(output))

\* the callback LED.__init__ registered
LedValueChange ==
    /\ \E v \in LedValues :
           /\ led_value' = v
           /\ IF led_script THEN led_change_value_script(v)
              ELSE IF led_enum THEN led_change_value_enum(v)
              ELSE led_change_value(v)
    /\ led_last' = "value"
    /\ UNCHANGED <<led_connected, led_enum, led_script, exclude_selection,
                   red_values, yellow_values, green_values, NotLED>>

\* self.pv.value and self.pv.char_value in the connection callback: what the
\* PV object holds, and when it holds nothing, nothing or a value it fetches
ValuesRead == IF led_value = << >> THEN {<< >>} \cup LedValues ELSE {led_value}

\* LED.on_connection_change
led_on_connection_change(c) ==
    IF c
    THEN \E v \in ValuesRead :
             /\ led_value' = v
             /\ IF led_enum THEN led_change_value_enum(v)
                ELSE led_change_value(v)
    ELSE /\ led_attr' = "disconnected"
         /\ UNCHANGED <<led_value, led_stdout>>

LedConnectionChange ==
    /\ \E c \in {~led_connected} :
           /\ led_connected' = c
           /\ led_on_connection_change(c)
           /\ led_last' = IF c THEN "connected" ELSE "disconnected"
    /\ UNCHANGED <<led_enum, led_script, exclude_selection, red_values,
                   yellow_values, green_values, NotLED>>

LedNext == LedConnectionChange \/ LedValueChange

SpecLED == LedInit /\ [][LedNext]_vars

(***************************************************************************)
(* The action field: button.                                               *)
(***************************************************************************)
\* button.__init__, as <<pv_name is given, script, click_value>>: no script,
\* a command without and with an argument, and the empty string
ButtonConfigurations ==
    {<<p, s, v>> : p \in BOOLEAN,
                   s \in {"None", "reset.sh", "reset.sh all", ""},
                   v \in {0, 1, 2, 5}}

\* button.__init__
button_init ==
    /\ \E c \in ButtonConfigurations :
           /\ has_pv = c[1]
           /\ script = c[2]
           /\ click_value = c[3]
    /\ button_attr = "None"
    /\ button_puts = << >>
    /\ button_calls = << >>
    /\ button_exc = "none"
    /\ button_last = "init"

ButtonInit ==
    /\ button_init
    /\ SetPVUnused /\ EnumUnused /\ GetUnused /\ LedUnused /\ PageUnused

\* button.clicked: without a script self.pv.put, and self.pv only exists when
\* a pv_name was given; with one the screen is cleared, the command is run
\* from bin_path when os.path.isfile finds it there, and the screen is
\* cleared again; "".split()[0] raises
clicked ==
    IF script = "None"
    THEN IF has_pv
         THEN /\ button_puts' = <<click_value>>
              /\ button_calls' = << >>
              /\ button_exc' = "none"
         ELSE /\ button_puts' = << >>
              /\ button_calls' = << >>
              /\ button_exc' = "AttributeError"
    ELSE IF script = ""
    THEN /\ button_puts' = << >>
         /\ button_calls' = <<"clear">>
         /\ button_exc' = "IndexError"
    ELSE /\ button_puts' = << >>
         /\ button_calls' \in {<<"clear", "call bin_path + script", "clear">>,
                               <<"clear", "call script", "clear">>}
         /\ button_exc' = "none"

\* an exception raised by a click leaves MainLoop.run: the loop ends
ButtonHalted == button_last = "click" /\ button_exc # "none"

ButtonClick ==
    /\ ~ButtonHalted
    /\ clicked
    /\ button_last' = "click"
    /\ UNCHANGED <<has_pv, script, click_value, button_attr, NotButton>>

\* button.on_connection_change, the callback of the pv of a button that has
\* one
button_on_connection_change(c) ==
    /\ button_attr' = IF c THEN "None" ELSE "disconnected"
    /\ button_puts' = << >>
    /\ button_calls' = << >>
    /\ button_exc' = "none"

ButtonConnectionChange ==
    /\ ~ButtonHalted
    /\ has_pv
    /\ \E c \in BOOLEAN :
           /\ button_on_connection_change(c)
           /\ button_last' = IF c THEN "connected" ELSE "disconnected"
    /\ UNCHANGED <<has_pv, script, click_value, NotButton>>

ButtonNext == ButtonClick \/ ButtonConnectionChange

SpecButton == ButtonInit /\ [][ButtonNext]_vars

(***************************************************************************)
(* parseConfig, the macro pass: the text of the file is read, and for each *)
(* macro value of the command line, in order, the tokens of its index are  *)
(* replaced in the text, or input() asks when the text has none.           *)
(***************************************************************************)
\* the pieces a document is put together from, at most
MaxPieces == 3

\* the macro values of one command line, at most
MaxMacros == 2

\* "%M{}".format(macroIndex + 1)
Token(i) == <<"%", "M">> \o NatToStr(i)

\* "%M{}KS".format(macroIndex + 1)
TokenKS(i) == Token(i) \o <<"K", "S">>

\* the macro value parseConfig compares with: "%S"
Sentinel == <<"%", "S">>

\* old in text, for a text old that is not empty
Contains(text, old) == \E i \in 1..Len(text) : OccursAt(text, old, i)

\* str.replace(old, new) from the 1-based index i on: the occurrences of old
\* that do not overlap, left to right, each replaced by new
RECURSIVE str_replace_from(_, _, _, _)
str_replace_from(text, old, new, i) ==
    IF i > Len(text) THEN << >>
    ELSE IF OccursAt(text, old, i)
    THEN new \o str_replace_from(text, old, new, i + Len(old))
    ELSE <<text[i]>> \o str_replace_from(text, old, new, i + 1)

str_replace(text, old, new) == str_replace_from(text, old, new, 1)

\* the texts a document is put together from: the tokens of the indices 1
\* and 2, the token of the index 10, which begins as the token of 1 does,
\* the beginning of a token, and a character of no token
Pieces ==
    {Token(1), TokenKS(1), Token(2), TokenKS(2), Token(10), <<"%", "M">>,
     <<"a">>}

RECURSIVE Documents(_)
Documents(n) ==
    IF n = 0 THEN {<< >>}
    ELSE LET shorter == Documents(n - 1)
         IN  shorter \cup {d \o p : d \in shorter, p \in Pieces}

\* the macro values: "7", the sentinel "%S", a value that is a token of the
\* second index, and a value that ends in a token of the first
MacroValues == {<<"7">>, Sentinel, Token(2), <<"a">> \o Token(1)}

\* args.macro: None without --macro (here << >>), else one value or more
MacroLists ==
    UNION {[1..n -> MacroValues] : n \in 0..MaxMacros}

MacroInit ==
    /\ source \in Documents(MaxPieces)
    /\ readFile = source
    /\ macro \in MacroLists
    /\ macroIndex = 0
    /\ prompts = << >>
    /\ macro_before = << >>
    /\ SetPVUnused /\ EnumUnused /\ GetUnused /\ LedUnused /\ ButtonUnused
    /\ ParseUnused /\ LoopUnused /\ RunUnused

\* the two replacements of one index
Substitution(text, i, value) ==
    IF value = Sentinel
    THEN str_replace(str_replace(text, TokenKS(i), Sentinel), Token(i), << >>)
    ELSE str_replace(str_replace(text, TokenKS(i), value), Token(i), value)

\* an iteration of the macro loop whose token is in the text
MacroSubstitute ==
    /\ macroIndex < Len(macro)
    /\ Contains(readFile, Token(macroIndex + 1))
    /\ readFile' = Substitution(readFile, macroIndex + 1, macro[macroIndex + 1])
    /\ macro_before' = readFile
    /\ macroIndex' = macroIndex + 1
    /\ UNCHANGED <<source, macro, prompts, NotMacro>>

\* an iteration whose token is not in the text: input() asks, and returns
MacroPrompt ==
    /\ macroIndex < Len(macro)
    /\ ~Contains(readFile, Token(macroIndex + 1))
    /\ prompts' = Append(prompts, macroIndex + 1)
    /\ macro_before' = readFile
    /\ macroIndex' = macroIndex + 1
    /\ UNCHANGED <<source, readFile, macro, NotMacro>>

MacroNext == MacroSubstitute \/ MacroPrompt

SpecMacro == MacroInit /\ [][MacroNext]_vars

(***************************************************************************)
(* parseConfig, after the macro pass: the rows of the document and the     *)
(* field declarations of each row, in order.  A field declaration is a     *)
(* dict, here a function from its keys; a name is a sequence of the texts  *)
(* it is joined from.                                                      *)
(***************************************************************************)
\* the rows of a document, and the field declarations of all its rows, at
\* most
MaxRows == 2

MaxDeclarations == 2

\* the calls of parseConfig on one file, at most
MaxParses == 2

\* dict.pop(key) and dict[key] = value
Without(field, key) == [k \in DOMAIN field \ {key} |-> field[k]]

With(field, key, value) ==
    [k \in DOMAIN field \cup {key} |-> IF k = key THEN value ELSE field[k]]

\* the types parseConfig lets through
FieldTypes == {"text", "LED", "getPV", "setPV", "button", "divider"}

\* the field declarations of the documents: a read-only field with a
\* device name, an editable field with enable true, an indicator with enable
\* false, a field of an unknown type, and fields that lack the type, the
\* width, and the pv_name a device name is joined with
Declarations ==
    { [type |-> "getPV", width |-> 10, device_name |-> <<"DEV">>,
       pv_name |-> <<"A">>],
      [type |-> "setPV", width |-> 12, pv_name |-> <<"B">>, enable |-> TRUE],
      [type |-> "LED", width |-> 2, pv_name |-> <<"C">>, enable |-> FALSE],
      [type |-> "gauge", width |-> 5, pv_name |-> <<"U">>],
      [width |-> 5, pv_name |-> <<"T">>],
      [type |-> "getPV", pv_name |-> <<"W">>],
      [type |-> "getPV", width |-> 10, device_name |-> <<"DEV">>] }

RowsOf(n) == UNION {[1..k -> Declarations] : k \in 0..n}

\* the documents of k rows that have n field declarations or fewer
RECURSIVE DocumentsOf(_, _)
DocumentsOf(k, n) ==
    IF k = 0 THEN {<< >>}
    ELSE UNION {{<<row>> \o rest : rest \in DocumentsOf(k - 1, n - Len(row))} :
                row \in RowsOf(n)}

PageDocuments == UNION {DocumentsOf(k, MaxDeclarations) : k \in 0..MaxRows}

ParseInit ==
    /\ file_doc \in PageDocuments
    /\ pageConfig = << >>
    /\ header \in BOOLEAN
    /\ verbose \in BOOLEAN
    /\ page = NoPage
    /\ parse_exc = NoException
    /\ bindings = << >>
    /\ printed = << >>
    /\ parses = 0
    /\ first_page = NoPage
    /\ SetPVUnused /\ EnumUnused /\ GetUnused /\ LedUnused /\ ButtonUnused
    /\ MacroUnused /\ LoopUnused /\ RunUnused

\* the parameters of the constructors, and those without a default
Parameters(type) ==
    CASE type = "setPV" ->
             {"pv_name", "enum", "unit", "display_precision", "scientific",
              "align_text"}
      [] type = "getPV" ->
             {"pv_name", "enum", "display_precision", "scientific", "unit",
              "align_text", "script"}
      [] type = "LED" ->
             {"pv_name", "red_values", "green_values", "yellow_values",
              "enum", "exclude_selection", "script"}
      [] type = "button" ->
             {"text", "pv_name", "click_value", "enum", "script",
              "align_text"}
      [] type = "text" -> {"markup", "align", "wrap", "layout"}
      [] OTHER -> {"div_char", "top", "bottom"}

Required(type) ==
    CASE type \in {"setPV", "getPV", "LED"} -> {"pv_name"}
      [] type = "button" -> {"text"}
      [] type = "text" -> {"markup"}
      [] OTHER -> {}

\* str2Class(type)(**kwargs) raises TypeError for a keyword that is no
\* parameter and for a parameter without a default that is not given
ConstructorRaises(type, kwargs) ==
    \/ ~(DOMAIN kwargs \subseteq Parameters(type))
    \/ ~(Required(type) \subseteq DOMAIN kwargs)

\* the constructors that create a PV object, with its callbacks
Binds(type, kwargs) ==
    \/ type \in {"setPV", "getPV", "LED"}
    \/ type = "button" /\ "pv_name" \in DOMAIN kwargs

\* PopUpWrapper(type, **kwargs)
PopUpWrapper(type, kwargs) == [type |-> type, kwargs |-> kwargs]

\* a load that hands out the document an earlier call built, and popped from
yaml_load_kept(doc, loaded) == IF loaded = << >> THEN doc ELSE loaded

\* yaml.load(readFile): the document of the file, built anew by each call;
\* the document an earlier call loaded is not read
yaml_load(doc, loaded) == doc

\* the loop's state before the first row: columns_list is not bound
LoopStart(doc) ==
    [doc |-> doc, rows_list |-> << >>, columns_list |-> << >>,
     bound |-> FALSE, bindings |-> << >>, printed |-> << >>,
     exc |-> NoException]

\* the test of enable without its "not"
Skipped_when_enabled(field) == "enable" \in DOMAIN field /\ field.enable

\* "if not field['enable']: continue"
Skipped(field) == "enable" \in DOMAIN field /\ ~field.enable

\* the body of the loop over the fields, for the field k of the row r
FieldStep(st, r, k) ==
    LET f0 == st.doc[r][k]
        st0 == IF verbose
               THEN [st EXCEPT !.printed = Append(@, f0)]
               ELSE st
        joins == "device_name" \in DOMAIN f0
        f1 == IF joins /\ "pv_name" \in DOMAIN f0
              THEN Without(With(f0, "pv_name",
                                f0.device_name \o <<":">> \o f0.pv_name),
                           "device_name")
              ELSE f0
        st1 == [st0 EXCEPT !.doc[r][k] = f1]
    IN  IF joins /\ "pv_name" \notin DOMAIN f0
        THEN [st0 EXCEPT !.exc = [name |-> "KeyError", key |-> "pv_name"]]
        ELSE IF "type" \notin DOMAIN f1
        THEN [st1 EXCEPT !.exc = [name |-> "KeyError", key |-> "type"]]
        ELSE IF "width" \notin DOMAIN f1
        THEN [st1 EXCEPT !.exc = [name |-> "KeyError", key |-> "width"]]
        ELSE IF f1.type \notin FieldTypes
        THEN [st1 EXCEPT !.exc = [name |-> "FieldParseError", field |-> f1,
                                  message |-> <<"undefined widget type",
                                                f1.type>>]]
        ELSE LET f2 == Without(Without(f1, "type"), "width") IN
             IF Skipped(f2)
             THEN [st1 EXCEPT !.doc[r][k] = f2]
             ELSE LET f3 == Without(f2, "enable") IN
                  IF ConstructorRaises(f1.type, f3)
                  THEN [st1 EXCEPT !.doc[r][k] = f3,
                                   !.exc = [name |-> "TypeError"]]
                  ELSE [st1 EXCEPT
                           !.doc[r][k] = f3,
                           !.columns_list =
                               Append(@, <<"fixed", f1.width,
                                           PopUpWrapper(f1.type, f3)>>),
                           !.bindings =
                               IF Binds(f1.type, f3)
                               THEN Append(@, f3.pv_name) ELSE @]

\* the loops over the rows and the fields, from the field k of the row r on;
\* k = 0 is the beginning of the row r
RECURSIVE RowsFrom(_, _, _)
RowsFrom(st, r, k) ==
    IF st.exc # NoException \/ r > Len(st.doc) THEN st
    ELSE IF k = 0
    THEN RowsFrom([st EXCEPT !.columns_list = << >>, !.bound = TRUE], r, 1)
    ELSE IF k > Len(st.doc[r])
    THEN RowsFrom([st EXCEPT !.rows_list = Append(@, st.columns_list)],
                  r + 1, 0)
    ELSE RowsFrom(FieldStep(st, r, k), r, k + 1)

\* what parseConfig returns after the loops
Returned(st) ==
    IF header
    THEN [kind |-> "Columns", columns |-> st.columns_list]
    ELSE [kind |-> "ListBox", rows |-> st.rows_list]

\* parseConfig, called on the file
Parse ==
    /\ parses < MaxParses
    /\ parse_exc = NoException
    /\ LET st == RowsFrom(LoopStart(yaml_load(file_doc, pageConfig)), 1, 0)
           raised == IF st.exc # NoException THEN st.exc
                     ELSE IF header /\ ~st.bound
                     THEN [name |-> "UnboundLocalError"]
                     ELSE NoException
       IN  /\ pageConfig' = st.doc
           /\ bindings' = st.bindings
           /\ printed' = st.printed
           /\ parse_exc' = raised
           /\ page' = IF raised = NoException THEN Returned(st) ELSE NoPage
           /\ first_page' = IF parses = 0 THEN page' ELSE first_page
    /\ parses' = parses + 1
    /\ UNCHANGED <<file_doc, header, verbose, NotParse>>

ParseNext == Parse

SpecParse == ParseInit /\ [][ParseNext]_vars

(***************************************************************************)
(* terminal_client: MainLoop.run on a page whose focus is on one field.    *)
(* A key goes to the open pop-up, or through PopUpWrapper.keypress to the  *)
(* field; a key that comes back goes to unhandled_input.  The provider's   *)
(* callbacks are those of the field, and nothing ends them.                *)
(***************************************************************************)
\* the keys pressed on the page: the commit key, the pop-up's keys, the
\* keys of unhandled_input, a step key, a digit, and the key of getPV
LoopKeys == {"enter", "i", "I", "q", "Q", "up", "5", "p"}

\* the fields that take the focus; a getPV of an enum variable does not
FocusKinds == {"setPV", "enum", "getPV", "button"}

LoopInit ==
    /\ focus \in FocusKinds
    /\ pop_up = FALSE
    /\ loop = "running"
    /\ loop_last = NoKey
    /\ unsubscribes = 0
    /\ \/ /\ focus = "setPV"
          /\ setPV_init
          /\ EnumUnused /\ GetUnused /\ ButtonUnused
       \/ /\ focus = "enum"
          /\ enum_setPV_init
          /\ GetUnused /\ ButtonUnused
       \/ /\ focus = "getPV"
          /\ getPV_init
          /\ get_kind # "enum"
          /\ SetPVUnused /\ EnumUnused /\ ButtonUnused
       \/ /\ focus = "button"
          /\ button_init
          /\ SetPVUnused /\ EnumUnused /\ GetUnused
    /\ LedUnused /\ MacroUnused /\ ParseUnused /\ RunUnused

\* what the fields show and hold: the texts, the edit states, the connection
\* flags, the enum index and the attribute maps
fieldstate ==
    <<conn, editing, edit_text, edit_pos, enum_strs, enum_strs_index,
      get_conn, get_attr, get_text, led_connected, led_attr, button_attr>>

\* terminal_client.unhandled_input: the keys that raise urwid.ExitMainLoop
unhandled_input(k) == k \in {"q", "Q"}

\* urwid.Button.keypress: the keys of the command ACTIVATE click the button
Activates(key) == key \in {"enter", " "}

\* the end of MainLoop's handling of a key: reached is the key when every
\* widget handed it back, and then unhandled_input has it
KeyDone(key, reached, raised, wrote) ==
    /\ loop' = IF raised THEN "crashed"
               ELSE IF reached # "None" /\ unhandled_input(reached)
               THEN "exited"
               ELSE "running"
    /\ loop_last' = [key |-> key, reached |-> reached,
                     changed |-> fieldstate' # fieldstate, wrote |-> wrote]
    /\ UNCHANGED <<focus, unsubscribes>>

\* a key while the pop-up is open goes to the Close button of WidgetInfoPopUp
LoopPopUpKey ==
    /\ loop = "running"
    /\ pop_up
    /\ \E key \in LoopKeys :
           /\ pop_up' = ~Activates(key)
           /\ UNCHANGED <<setvars, enumvars, getvars, ledvars, buttonvars,
                          macrovars, parsevars, runvars>>
           /\ KeyDone(key, IF Activates(key) THEN "None" ELSE key, FALSE,
                      FALSE)

\* PopUpWrapper.keypress, "i" and "I": open_pop_up
LoopInfoKey ==
    /\ loop = "running"
    /\ ~pop_up
    /\ \E key \in {"i", "I"} :
           /\ pop_up' = TRUE
           /\ UNCHANGED <<setvars, enumvars, getvars, ledvars, buttonvars,
                          macrovars, parsevars, runvars>>
           /\ KeyDone(key, "None", FALSE, FALSE)

\* PopUpWrapper.keypress, the other keys, on a setPV
LoopSetPVKey ==
    /\ loop = "running"
    /\ ~pop_up
    /\ focus = "setPV"
    /\ \E key \in LoopKeys \ {"i", "I"} :
           /\ last' = [op |-> "key", key |-> key, was_editing |-> editing]
           /\ setPV_keypress(key)
           /\ enters' = IF conn /\ key = "enter"
                        THEN (IF enters < MaxEnters THEN enters + 1 ELSE enters)
                        ELSE 0
           /\ UNCHANGED <<conn, pv_value, unit, s_precision, w_precision,
                          enumvars, getvars, ledvars, buttonvars, macrovars,
                          parsevars, runvars, pop_up>>
           /\ KeyDone(key, ret', exc' # "none", puts' # << >>)

\* the same on a setPV of an enumerated variable
LoopEnumKey ==
    /\ loop = "running"
    /\ ~pop_up
    /\ focus = "enum"
    /\ \E key \in LoopKeys \ {"i", "I"} :
           /\ last' = [op |-> "key", key |-> key, was_editing |-> editing]
           /\ enum_setPV_keypress(key)
           /\ UNCHANGED <<conn, pv_value, unit, s_precision, w_precision,
                          enters, enum_strs, pv_enum_strs, getvars, ledvars,
                          buttonvars, macrovars, parsevars, runvars,
                          pop_up>>
           /\ KeyDone(key, ret', exc' # "none", puts' # << >>)

\* getPV.keypress: what it returns.  "key is 'p'" compares identities, which
\* holds for equal one-character strings in some interpreters and not in
\* others; when it holds ConsolePlot.sh is run and None is returned
getPV_keypress(key) ==
    IF key = "p" /\ get_kind # "enum" THEN {"None", key} ELSE {key}

\* the same on a getPV
LoopGetPVKey ==
    /\ loop = "running"
    /\ ~pop_up
    /\ focus = "getPV"
    /\ \E key \in LoopKeys \ {"i", "I"} :
           \E returned \in getPV_keypress(key) :
               /\ UNCHANGED <<setvars, enumvars, getvars, ledvars, buttonvars,
                              macrovars, parsevars, runvars, pop_up>>
               /\ KeyDone(key, returned, FALSE, FALSE)

\* the same on a button: urwid.Button.keypress, and clicked for a click
LoopButtonKey ==
    /\ loop = "running"
    /\ ~pop_up
    /\ focus = "button"
    /\ \E key \in LoopKeys \ {"i", "I"} :
           /\ IF Activates(key)
              THEN /\ clicked
                   /\ button_last' = "click"
              ELSE UNCHANGED <<button_puts, button_calls, button_exc,
                               button_last>>
           /\ UNCHANGED <<has_pv, script, click_value, button_attr, setvars,
                          enumvars, getvars, ledvars, macrovars, parsevars,
                          runvars,
                          pop_up>>
           /\ KeyDone(key, IF Activates(key) THEN "None" ELSE key,
                      Activates(key) /\ button_exc' # "none",
                      Activates(key) /\ button_puts' # << >>)

\* the callbacks of the field's PV object, which run whatever the loop does
LoopCallback ==
    \/ focus = "setPV" /\ (ConnectionChange \/ ValueChange)
    \/ focus = "enum" /\ (EnumConnectionChange \/ EnumValueChange)
    \/ focus = "getPV" /\ (GetConnectionChange \/ GetValueChange)
    \/ focus = "button" /\ ButtonConnectionChange

LoopNext ==
    \/ LoopPopUpKey
    \/ LoopInfoKey
    \/ LoopSetPVKey
    \/ LoopEnumKey
    \/ LoopGetPVKey
    \/ LoopButtonKey
    \/ LoopCallback

SpecLoop == LoopInit /\ [][LoopNext]_vars

(***************************************************************************)
(* The command line and the refresh alarm: the block under __main__ makes  *)
(* the terminal_client, whose __init__ arms an alarm on the event loop;    *)
(* update_screen, the alarm's callback, arms the next one.                 *)
(***************************************************************************)
\* the alarms followed in one run
MaxTicks == 4

\* update_rate=0.5, the default of terminal_client.__init__, in tenths of a
\* second
DefaultRate == 5

\* args.time in tenths of a second: the default of --time, 0.5, and four
\* periods given on the command line
RefreshTimes == {5, 1, 10, 20, 25}

\* args.config: not given, the name of a file in yaml_path, or a path that
\* yaml_path has no file for and that is then opened as it is
ConfigArguments == {"None", "in yaml_path", "literal"}

RefreshInit ==
    /\ args_config \in ConfigArguments
    /\ args_time \in RefreshTimes
    /\ screen = "None"
    /\ update_rate = 0
    /\ alarms = << >>
    /\ ticks = 0
    /\ SetPVUnused /\ EnumUnused /\ GetUnused /\ LedUnused /\ ButtonUnused
    /\ MacroUnused /\ ParseUnused /\ LoopUnused /\ StepUnused /\ ThreadUnused

\* what the refresh runs leave alone
NotRefresh ==
    <<setvars, enumvars, getvars, ledvars, buttonvars, macrovars, parsevars,
      loopvars, stepvars, threadvars>>

\* the update_rate the block under __main__ constructs terminal_client with:
\* the call for a file found in yaml_path passes no update_rate
terminal_client_update_rate ==
    IF args_config = "in yaml_path" THEN DefaultRate ELSE args_time

\* screen = terminal_client(...): __init__ keeps update_rate and arms the
\* first alarm
Construct ==
    /\ screen = "None"
    /\ args_config # "None"
    /\ update_rate' = terminal_client_update_rate
    /\ alarms' = Append(alarms, update_rate')
    /\ screen' = "constructed"
    /\ UNCHANGED <<args_config, args_time, ticks, NotRefresh>>

\* screen.main(): MainLoop.run on the event loop that holds the alarm
Main ==
    /\ screen = "constructed"
    /\ screen' = "running"
    /\ UNCHANGED <<args_config, args_time, update_rate, alarms, ticks,
                   NotRefresh>>

\* the event loop takes the alarm that is due off and calls update_screen,
\* which arms an alarm of update_rate
update_screen ==
    /\ screen = "running"
    /\ alarms # << >>
    /\ ticks < MaxTicks
    /\ alarms' = Append(Tail(alarms), update_rate)
    /\ ticks' = ticks + 1
    /\ UNCHANGED <<args_config, args_time, screen, update_rate, NotRefresh>>

\* unhandled_input raises ExitMainLoop and MainLoop.run returns
RefreshQuit ==
    /\ screen = "running"
    /\ screen' = "exited"
    /\ UNCHANGED <<args_config, args_time, update_rate, alarms, ticks,
                   NotRefresh>>

RefreshNext == Construct \/ Main \/ update_screen \/ RefreshQuit

SpecRefresh == RefreshInit /\ [][RefreshNext]_vars

(***************************************************************************)
(* Step keys in a row: an Editing field whose buffer a value notification  *)
(* has just rendered, the cursor where the cursor keys left it, and step   *)
(* keys pressed on it one after the other.                                 *)
(***************************************************************************)
\* the step keys followed in one run
MaxSteps == 2

\* the values the buffers show: 12.4, -0.05, 9.4, 0.4 and 99.99, none of
\* them half way between two numerals at a precision of the fields
StepValues ==
    {Val(FALSE, 124, 1), Val(TRUE, 5, 2), Val(FALSE, 94, 1), Val(FALSE, 4, 1),
     Val(FALSE, 9999, 2)}

\* setPV.change_value on an Editing field: the buffer is the value at the
\* field's precision, the cursor is where it was, pulled back to the end
StepInit ==
    /\ conn = TRUE
    /\ editing = TRUE
    /\ \E c \in Configurations :
           /\ c[1] \in Nat
           /\ s_precision = c[1]
           /\ w_precision = c[2]
           /\ unit = c[3]
    /\ pv_value \in StepValues
    /\ edit_text \in FormatFixed(pv_value, s_precision, unit)
    /\ edit_pos \in 0..Len(edit_text)
    /\ exc = "none"
    /\ puts = << >>
    /\ ret = "None"
    /\ last = [op |-> "value", key |-> "", was_editing |-> TRUE]
    /\ nedits = 0
    /\ enters = 0
    /\ steps = << >>
    /\ EnumUnused /\ GetUnused /\ LedUnused /\ ButtonUnused
    /\ MacroUnused /\ ParseUnused /\ LoopUnused /\ ThreadUnused
    /\ RefreshUnused

\* what the step keys leave alone
NotStep ==
    <<enumvars, getvars, ledvars, buttonvars, macrovars, parsevars, loopvars,
      threadvars, refreshvars>>

\* setPV.keypress of a step key, and the buffer and cursor it found
StepKeyPress ==
    /\ ~Halted
    /\ Len(steps) < MaxSteps
    /\ \E key \in StepKeys :
           /\ last' = [op |-> "key", key |-> key, was_editing |-> editing]
           /\ setPV_keypress(key)
           /\ steps' = Append(steps, [key |-> key, text |-> edit_text,
                                      pos |-> edit_pos])
    /\ enters' = 0
    /\ UNCHANGED <<conn, pv_value, unit, s_precision, w_precision, NotStep>>

StepNext == StepKeyPress

SpecStep == StepInit /\ [][StepNext]_vars

(***************************************************************************)
(* The threads.  MainLoop.run calls keypress on the thread of the program; *)
(* the PV object calls on_connection_change and change_value, registered   *)
(* with it by setPV.__init__, on the thread the provider delivers its      *)
(* events on.  The callbacks write the widget themselves, so they can run  *)
(* between any two statements of a keypress that is under way.  A step key *)
(* is followed statement by statement: the guard, the find, the evaluation *)
(* of the argument of set_edit_text, set_edit_text, and write_value.       *)
(***************************************************************************)
\* the values the notifications carry while a key is handled: 12.4, -0.05
\* and 9.4, which has a digit less
ThreadValues == {Val(FALSE, 124, 1), Val(TRUE, 5, 2), Val(FALSE, 94, 1)}

\* an Editing field as a value notification left it, and no key under way
ThreadInit ==
    /\ conn = TRUE
    /\ editing = TRUE
    /\ \E c \in Configurations :
           /\ c[1] \in Nat
           /\ s_precision = c[1]
           /\ w_precision = c[2]
           /\ unit = c[3]
    /\ pv_value \in ThreadValues
    /\ edit_text \in FormatFixed(pv_value, s_precision, unit)
    /\ edit_pos \in 0..Len(edit_text)
    /\ exc = "none"
    /\ puts = << >>
    /\ ret = "None"
    /\ last = [op |-> "value", key |-> "", was_editing |-> TRUE]
    /\ nedits = 0
    /\ enters = 0
    /\ ThreadUnused
    /\ EnumUnused /\ GetUnused /\ LedUnused /\ ButtonUnused
    /\ MacroUnused /\ ParseUnused /\ LoopUnused /\ StepUnused
    /\ RefreshUnused

\* what the threads leave alone
NotThread ==
    <<enumvars, getvars, ledvars, buttonvars, macrovars, parsevars, loopvars,
      stepvars, refreshvars, unit, s_precision, w_precision, enters>>

\* keypress returns, or raises, and no key is under way
KpReturn ==
    /\ kp_pc' = "idle"
    /\ UNCHANGED <<kp_key, kp_p, kp_point_pos, kp_read, kp_text>>

\* setPV.keypress hands a step key to editPV.keypress, which reads edit_pos
\* and evaluates the guard of the step
KpGuard ==
    /\ kp_pc = "idle"
    /\ exc = "none"
    /\ conn /\ editing
    /\ nedits < MaxEdits
    /\ \E key \in StepKeys :
           /\ last' = [op |-> "key", key |-> key, was_editing |-> editing]
           /\ kp_key' = key
           /\ kp_p' = edit_pos
           /\ kp_pc' = IF StepRefused(edit_text, edit_pos) THEN "idle"
                       ELSE "guarded"
    /\ ret' = "None"
    /\ puts' = << >>
    /\ UNCHANGED <<conn, editing, edit_text, edit_pos, pv_value, exc, nedits,
                   kp_point_pos, kp_read, kp_text, writer, overwritten,
                   NotThread>>

\* point_pos = self.edit_text.find(".")
KpFind ==
    /\ kp_pc = "guarded"
    /\ exc = "none"
    /\ kp_point_pos' = Find(edit_text, ".")
    /\ kp_pc' = "found"
    /\ UNCHANGED <<setvars, kp_key, kp_p, kp_read, kp_text, writer,
                   overwritten, NotThread>>

\* n + 10 ** k for an integer n and k < 0 is a float, and "{}" formats it
\* with the digits it has
FormatSum(n, sign, k, u) ==
    IF k >= 0 THEN FormatInt(n + sign * Pow10(k), u)
    ELSE LET q == n * Pow10(0 - k) + sign
         IN  Fixed(q < 0, IF q < 0 THEN 0 - q ELSE q, 0 - k) \o u

\* the argument of set_edit_text is evaluated from the edit_text of now and
\* the p and point_pos of before
KpRead ==
    /\ kp_pc = "found"
    /\ exc = "none"
    /\ LET sign == IF kp_key = "up" THEN 1 ELSE 0 - 1
           s == StripUnit(edit_text, unit)
           k == StepExponent(edit_text, kp_p, kp_point_pos)
           d == IF sign > 0 THEN TenTo(k) ELSE Negated(TenTo(k))
       IN  IF kp_point_pos >= 0
           THEN IF ~PyFloatOK(s) \/ FormatRaises(PyFloat(s), w_precision)
                THEN exc' = "ValueError" /\ KpReturn
                ELSE /\ kp_text' \in FormatFixed(FloatAdd(PyFloat(s), d),
                                                 w_precision, unit)
                     /\ kp_read' = edit_text
                     /\ kp_pc' = "read"
                     /\ UNCHANGED <<exc, kp_key, kp_p, kp_point_pos>>
           ELSE IF ~PyIntOK(s)
                THEN exc' = "ValueError" /\ KpReturn
                ELSE /\ kp_text' = FormatSum(PyInt(s), sign, k, unit)
                     /\ kp_read' = edit_text
                     /\ kp_pc' = "read"
                     /\ UNCHANGED <<exc, kp_key, kp_p, kp_point_pos>>
    /\ UNCHANGED <<conn, editing, edit_text, edit_pos, pv_value, puts, ret,
                   last, nedits, writer, overwritten, NotThread>>

\* super().set_edit_text(...) with the argument evaluated before
KpSet ==
    /\ kp_pc = "read"
    /\ exc = "none"
    /\ edit_text' = kp_text
    /\ edit_pos' = Clamp(edit_pos, kp_text)
    /\ writer' = "loop"
    /\ overwritten' = (overwritten \/ edit_text # kp_read)
    /\ kp_pc' = "set"
    /\ UNCHANGED <<conn, editing, pv_value, exc, puts, ret, last, nedits,
                   kp_key, kp_p, kp_point_pos, kp_read, kp_text, NotThread>>

\* self.write_value(), on the edit_text of now, and return None
KpWrite ==
    /\ kp_pc = "set"
    /\ exc = "none"
    /\ write_value(edit_text, edit_pos)
    /\ nedits' = nedits + 1
    /\ writer' = "loop"
    /\ KpReturn
    /\ UNCHANGED <<conn, editing, pv_value, ret, last, overwritten,
                   NotThread>>

\* setPV.change_value on the provider's thread
ThreadValueChange ==
    /\ exc = "none"
    /\ \E v \in ThreadValues :
           /\ pv_value' = v
           /\ change_value(v)
    /\ writer' = "provider"
    /\ UNCHANGED <<conn, editing, ret, last, nedits, kp_pc, kp_key, kp_p,
                   kp_point_pos, kp_read, kp_text, overwritten, NotThread>>

\* setPV.on_connection_change on the provider's thread
ThreadConnectionChange ==
    /\ exc = "none"
    /\ on_connection_change(~conn)
    /\ writer' = "provider"
    /\ UNCHANGED <<pv_value, ret, last, nedits, kp_pc, kp_key, kp_p,
                   kp_point_pos, kp_read, kp_text, overwritten, NotThread>>

ThreadNext ==
    \/ KpGuard
    \/ KpFind
    \/ KpRead
    \/ KpSet
    \/ KpWrite
    \/ ThreadValueChange
    \/ ThreadConnectionChange

SpecThreads == ThreadInit /\ [][ThreadNext]_vars

(***************************************************************************)
(* What the handlers are claimed to do.                                    *)
(***************************************************************************)
KeyStep(key) == last'.op = "key" /\ last'.key = key

\* C1: a connection-lost notification leaves the field Viewing, showing the
\* placeholder, and writes nothing, also when it found the field Editing.
C1_DisconnectDiscardsEdit ==
    last.op = "disconnected"
        => (~editing /\ edit_text = Placeholder /\ puts = << >>)

C1_Witness ==
    /\ last.op = "disconnected"
    /\ last.was_editing
    /\ ~editing
    /\ edit_text = Placeholder

\* C2: an Editing field is Connected, and a handler that found the field
\* Viewing and left it Editing was the commit key, pressed while Connected,
\* and it put the cursor at position 0.
C2_EditingOnlyFromConnected ==
    editing =>
        /\ conn
        /\ ~last.was_editing =>
               (last.op = "key" /\ last.key = "enter" /\ edit_pos = 0)

C2_Witness ==
    /\ editing
    /\ conn
    /\ last.op = "key"
    /\ last.key = "enter"
    /\ ~last.was_editing
    /\ edit_pos = 0
    /\ edit_text # Placeholder

(***************************************************************************)
(* The shape of a buffer, as the claims speak of it.                       *)
(***************************************************************************)
HasPoint(t) == \E i \in 1..Len(t) : t[i] = "."

AllDigits(t) == t # << >> /\ \A i \in 1..Len(t) : t[i] \in Digits

\* digits with no zero before the first one
Whole(t) == AllDigits(t) /\ (Len(t) = 1 \/ t[1] # "0")

\* an optional sign, a whole part and, for prec > 0, a point and prec digits
FixedNumeral(t, prec) ==
    LET b == IF t # << >> /\ t[1] = "-" THEN Tail(t) ELSE t
        n == Len(b)
    IN  IF prec = 0 THEN Whole(b)
        ELSE /\ n >= prec + 2
             /\ b[n - prec] = "."
             /\ Whole(SubSeq(b, 1, n - prec - 1))
             /\ AllDigits(SubSeq(b, n - prec + 1, n))

EndsWithUnit(t) ==
    /\ Len(t) >= Len(unit)
    /\ SubSeq(t, Len(t) - Len(unit) + 1, Len(t)) = unit

\* a number with exactly prec fractional digits, followed by the unit
RenderedAt(t, prec) ==
    /\ EndsWithUnit(t)
    /\ FixedNumeral(SubSeq(t, 1, Len(t) - Len(unit)), prec)

\* the cursor is on the point, on a sign, or at or past the end
NoStepPosition(t, p) == p >= Len(t) \/ t[p + 1] \in {".", "-"}

\* digits, at most one point, and a sign at index 0 only
FilterShape(t) ==
    /\ \A i \in 1..Len(t) : t[i] \in Digits \cup {".", "-"}
    /\ Cardinality({i \in 1..Len(t) : t[i] = "."}) <= 1
    /\ \A i \in 1..Len(t) : t[i] = "-" => i = 1

StepKeyStep == KeyStep("up") \/ KeyStep("down")

\* C3: the commit key in Editing, on a buffer that is a number, with or
\* without a decimal point, leaves the field Viewing, the buffer rendered with
\* exactly `precision` fractional digits, and exactly one write, of the value
\* the buffer shows.
C3_CommitNormalizesAndWrites ==
    [][(editing /\ conn /\ KeyStep("enter")
            /\ PyFloatOK(StripUnit(edit_text, unit)))
        => (/\ ~editing'
            /\ exc' = "none"
            /\ RenderedAt(edit_text', w_precision)
            /\ Len(puts') = 1
            /\ puts'[1] = PyFloat(StripUnit(edit_text', unit)))]_vars

\* C4: the commit key in Editing never ends in an error, whatever the
\* buffer holds.
C4_CommitNeverFails ==
    (last.op = "key" /\ last.key = "enter" /\ last.was_editing)
        => (exc = "none" /\ ~editing)

\* C5: while Editing, the numeric part of the buffer holds only digits, at
\* most one point, and at most one sign, which is at index 0.
C5_FilterKeepsBufferNumeric ==
    (editing /\ edit_text # Placeholder)
        => FilterShape(StripUnit(edit_text, unit))

T_12_50 == <<"1", "2", ".", "5", "0">>

T_13_50 == <<"1", "3", ".", "5", "0">>

T_22_50 == <<"2", "2", ".", "5", "0">>

T_12_51 == <<"1", "2", ".", "5", "1">>

T_12_60 == <<"1", "2", ".", "6", "0">>

StepUpOn_12_50 ==
    /\ editing
    /\ conn
    /\ KeyStep("up")
    /\ edit_text = T_12_50
    /\ w_precision = 2
    /\ unit = << >>

\* C6, as amended: on "12.50" at precision 2 an increment step yields "13.50"
\* with the cursor at position 1, "12.60" at position 3 and "12.51" at
\* position 4.
C6_StepExamples ==
    [][StepUpOn_12_50
        => (/\ edit_pos = 1 => edit_text' = T_13_50
            /\ edit_pos = 3 => edit_text' = T_12_60
            /\ edit_pos = 4 => edit_text' = T_12_51)]_vars

\* C6, as stated: "22.50" at position 1 and "12.60" at position 4.
C6_StepExamplesAsStated ==
    [][StepUpOn_12_50
        => (/\ edit_pos = 1 => edit_text' = T_22_50
            /\ edit_pos = 4 => edit_text' = T_12_60)]_vars

C6_Witness ==
    /\ last.op = "key"
    /\ last.key = "up"
    /\ editing
    /\ w_precision = 2
    /\ edit_text = T_13_50
    /\ edit_pos = 1
    /\ puts = <<Val(FALSE, 1350, 2)>>

\* C7: a step key in Editing changes nothing and writes nothing when the
\* cursor is on the point, on a sign or at or past the end, and it writes
\* at every other cursor position.
C7_StepNoOpPositions ==
    [][(editing /\ conn /\ StepKeyStep)
        => (/\ NoStepPosition(edit_text, edit_pos)
                => (UNCHANGED <<edit_text, edit_pos>> /\ puts' = << >>)
            /\ puts' = << >> => NoStepPosition(edit_text, edit_pos))]_vars

SuccessfulStep ==
    /\ editing
    /\ conn
    /\ StepKeyStep
    /\ ~NoStepPosition(edit_text, edit_pos)
    /\ exc' = "none"

OneWriteOfTheBuffer ==
    /\ Len(puts') = 1
    /\ puts'[1] = PyFloat(StripUnit(edit_text', unit))

FreeTextEdit ==
    /\ editing
    /\ conn
    /\ last'.op = "key"
    /\ last'.key \in CharKeys \cup DeleteKeys

\* C8: every successful step in Editing renders the buffer with exactly
\* `precision` fractional digits and writes once, the value the new buffer
\* shows; inserting or deleting a character writes nothing.
C8_StepRendersAtPrecision ==
    [][/\ SuccessfulStep
           => (OneWriteOfTheBuffer /\ RenderedAt(edit_text', w_precision))
       /\ FreeTextEdit => puts' = << >>]_vars

\* C9: a key pressed while the field is Viewing, other than the commit key,
\* and any key pressed while it is Disconnected, changes neither buffer,
\* cursor nor edit state, writes nothing and is returned to the parent.
C9_KeysRefusedOutsideEditing ==
    [][(/\ last'.op = "key"
        /\ \/ conn /\ ~editing /\ last'.key # "enter"
           \/ ~conn)
        => (/\ UNCHANGED <<edit_text, edit_pos, editing>>
            /\ puts' = << >>
            /\ exc' = "none"
            /\ ret' = last'.key)]_vars

C9_Witness ==
    /\ conn
    /\ ~editing
    /\ last.op = "key"
    /\ last.key = "up"
    /\ ret = "up"
    /\ edit_text # Placeholder

\* the buffer is what a commit left, or is rendered at the write precision
CommittedBuffer ==
    \/ enters >= 2
    \/ w_precision \in Nat /\ RenderedAt(edit_text, w_precision)

\* C10: a commit of a buffer that a commit has left and that was not changed
\* since (the commit key pressed to enter Editing again, then to commit), or
\* that is rendered at the configured precision, with or without a unit,
\* reproduces the same string, without an error, and returns to Viewing.
C10_CommitRoundTrip ==
    [][(editing /\ conn /\ CommittedBuffer /\ KeyStep("enter"))
        => (edit_text' = edit_text /\ exc' = "none" /\ ~editing')]_vars

C10_Witness ==
    /\ enters = 3
    /\ last.was_editing
    /\ ~editing
    /\ conn
    /\ exc = "none"
    /\ nedits >= 1
    /\ unit # << >>
    /\ RenderedAt(edit_text, w_precision)

\* the index is one of the captured table, 0 when the table is empty
IndexInTable ==
    enum_strs_index \in 0..(IF enum_strs = << >> THEN 0 ELSE Len(enum_strs) - 1)

\* C11: the selected index of an enumerated field always stays within the
\* captured table, also when the table is empty or not yet captured.
C11_IndexWithinTable == IndexInTable

ShownIn(table) == \E i \in 1..Len(table) : table[i] = edit_text

\* C12: in an enumerated field a step key writes nothing, and the commit key
\* in Editing, on a buffer that shows a string of the table, writes exactly
\* the index of that string (here for a field with a precision given).
C12_CommitWritesShownIndex ==
    [][/\ (editing /\ conn /\ StepKeyStep) => puts' = << >>
       /\ (editing /\ conn /\ KeyStep("enter") /\ ShownIn(enum_strs)
               /\ w_precision \in Nat)
           => /\ exc' = "none"
              /\ \E i \in 1..Len(enum_strs) :
                     /\ enum_strs[i] = edit_text
                     /\ puts' = <<Val(FALSE, i - 1, 0)>>]_vars

\* C13: a Disconnected read-only field shows the placeholder, whatever
\* notifications were delivered and in whatever order.
C13_DisconnectedShowsPlaceholder ==
    ~get_conn => (get_attr = "disconnected" /\ get_text = Placeholder)

\* the display of a Connected read-only field for the value and the command
\* output it holds
ShowsLatest ==
    IF get_kind = "script" THEN get_text = ScriptText(get_stdout)
    ELSE IF get_kind = "enum" THEN get_text = char_value(get_value)
    ELSE get_precision \in Nat
             => get_text \in FormatFixed(get_value, get_precision, get_unit)

GetValueStep == get_conn /\ get_last' = "value"

Redelivery ==
    /\ get_last = "value"
    /\ get_value' = get_value
    /\ get_stdout' = get_stdout

C15_RendersAtResolvedPrecision ==
    (conn /\ last.op = "value")
        => /\ exc = "none"
           /\ s_precision \in Nat
           /\ RenderedAt(edit_text, s_precision)

\* a threshold set matches: in it, or with inversion non-empty and not in it
Matches(set, value, inverted) ==
    IF inverted THEN set # {} /\ value \notin set ELSE value \in set

\* the reference classification: red, yellow, green, off, the first that
\* matches
Reference(value, red, yellow, green, inverted) ==
    CASE Matches(red, value, inverted) -> "red_LED_on"
      [] ~Matches(red, value, inverted) /\ Matches(yellow, value, inverted)
             -> "yellow_LED_on"
      [] ~Matches(red, value, inverted) /\ ~Matches(yellow, value, inverted)
             /\ Matches(green, value, inverted) -> "green_LED_on"
      [] OTHER -> "LED_off"

ReferenceCategory(value) ==
    Reference(value, red_values, yellow_values, green_values, exclude_selection)

\* the latest handler was a value notification that ran the classification
\* of the value: no classifier, and for an enum LED a string that is not empty
Classified ==
    /\ led_last = "value"
    /\ ~led_script
    /\ led_enum => led_value # << >>

\* C16: the category a value gets is that of the reference function, for
\* every value and every triple of sets, with and without inversion: so with
\* red={0}, yellow={1}, green={2} the value 1 gives yellow, and with inversion
\* and red={0} the value 5 gives red.
C16_ClassificationIsReference ==
    Classified =>
        /\ led_attr = ReferenceCategory(led_value)
        /\ (/\ ~exclude_selection
            /\ red_values = {<<"0">>}
            /\ yellow_values = {<<"1">>}
            /\ green_values = {<<"2">>}
            /\ led_value = <<"1">>) => led_attr = "yellow_LED_on"
        /\ (/\ exclude_selection
            /\ red_values = {<<"0">>}
            /\ led_value = <<"5">>) => led_attr = "red_LED_on"

C16_Witness ==
    /\ Classified
    /\ exclude_selection
    /\ red_values = {<<"0">>}
    /\ yellow_values = {}
    /\ led_value = <<"5">>
    /\ led_attr = "red_LED_on"

\* C17: a Disconnected indicator has the disconnected category, whatever
\* notifications were delivered and in whatever order.
C17_DisconnectedOverrides == ~led_connected => led_attr = "disconnected"

\* the category the claim gives a Connected indicator: that of the output of
\* the classifier, of the string, or of the value
ClaimedCategory ==
    IF led_script
    THEN IF CountNL(led_stdout) > 1 THEN "head"
         ELSE ReferenceCategory(WithoutNL(led_stdout))
    ELSE ReferenceCategory(led_value)

\* C18: after a value notification and after a connection-established event
\* a Connected indicator has the category of its current value: of the
\* string for an enum, off when nothing matches, also for the empty string;
\* of the output of the classifier when it has one.
C18_ClassifiedOnEveryEvent ==
    (led_connected /\ led_last \in {"value", "connected"})
        => led_attr = ClaimedCategory

\* the lines of an output: a last line needs no newline
Lines(output) ==
    CountNL(output)
        + (IF output # << >> /\ output[Len(output)] # NL THEN 1 ELSE 0)

\* C19: the output of a classifier is invalid exactly when it has two lines
\* or more, whether or not the last line ends with a newline.
C19_TwoLinesAreInvalid ==
    (led_script /\ led_connected /\ led_last = "value")
        => (led_attr = "head" <=> Lines(led_stdout) >= 2)

\* C20: an activation never fails and leaves the state of the field as it
\* was; without a script it writes the click value once and runs nothing,
\* with a script it writes nothing and runs the command once, between two
\* clears of the screen.
C20_ActivationDoesOneThing ==
    [][button_last' = "click"
        => (/\ button_exc' = "none"
            /\ UNCHANGED button_attr
            /\ IF script = "None"
               THEN button_puts' = <<click_value>> /\ button_calls' = << >>
               ELSE /\ button_puts' = << >>
                    /\ Len(button_calls') = 3
                    /\ button_calls'[1] = "clear"
                    /\ button_calls'[2] \in {"call bin_path + script",
                                             "call script"}
                    /\ button_calls'[3] = "clear")]_vars

(***************************************************************************)
(* What the macro pass is claimed to do.                                   *)
(***************************************************************************)
\* the text the substitution of index i is said to give, read off the text
\* in one pass: a token with its suffix becomes the value, or the marker "S"
\* for the sentinel, and a bare token becomes the value, or nothing
RECURSIVE SubstitutedFrom(_, _, _, _, _)
SubstitutedFrom(text, i, value, marker, p) ==
    IF p > Len(text) THEN << >>
    ELSE IF OccursAt(text, TokenKS(i), p)
    THEN (IF value = Sentinel THEN marker ELSE value)
         \o SubstitutedFrom(text, i, value, marker, p + Len(TokenKS(i)))
    ELSE IF OccursAt(text, Token(i), p)
    THEN (IF value = Sentinel THEN << >> ELSE value)
         \o SubstitutedFrom(text, i, value, marker, p + Len(Token(i)))
    ELSE <<text[p]>> \o SubstitutedFrom(text, i, value, marker, p + 1)

\* C21: the iteration of index i leaves the text in which every %M<i>KS and
\* every remaining bare %M<i> is replaced by the value, or, for the
\* pass-through sentinel, every %M<i>KS by the marker S and every bare
\* %M<i> by nothing
C21_SubstitutionOfOneIndex ==
    macroIndex > 0 =>
        readFile = SubstitutedFrom(macro_before, macroIndex,
                                   macro[macroIndex], <<"S">>, 1)

\* the text a token of index i is replaced by
Inserted(i, suffixed) ==
    IF macro[i] = Sentinel
    THEN (IF suffixed THEN Sentinel ELSE << >>)
    ELSE macro[i]

\* the substitutions of the indices i, i + 1, ... that never read what an
\* earlier index inserted: the text is cut at the tokens of index i, and only
\* the pieces between them are handed to the later indices
RECURSIVE NotRescanned(_, _), CutAt(_, _, _, _)
NotRescanned(text, i) ==
    IF i > Len(macro) THEN text ELSE CutAt(text, i, 1, << >>)

CutAt(text, i, p, piece) ==
    IF p > Len(text) THEN NotRescanned(piece, i + 1)
    ELSE IF OccursAt(text, TokenKS(i), p)
    THEN NotRescanned(piece, i + 1) \o Inserted(i, TRUE)
         \o CutAt(text, i, p + Len(TokenKS(i)), << >>)
    ELSE IF OccursAt(text, Token(i), p)
    THEN NotRescanned(piece, i + 1) \o Inserted(i, FALSE)
         \o CutAt(text, i, p + Len(Token(i)), << >>)
    ELSE CutAt(text, i, p + 1, Append(piece, text[p]))

\* C22: the indices are substituted in ascending order and what one index
\* inserted is not read again by a later one: a value that holds a token of a
\* later index is in the result as it was given
C22_InsertedTextNotRescanned ==
    macroIndex = Len(macro) => readFile = NotRescanned(source, 1)

(***************************************************************************)
(* What the parse of a document is claimed to do.                          *)
(***************************************************************************)
\* the places of the field declarations in the file's document
Places ==
    {pl \in (1..Len(file_doc)) \X (1..MaxDeclarations) :
         pl[2] <= Len(file_doc[pl[1]])}

Declared(pl) == file_doc[pl[1]][pl[2]]

\* a declaration that lacks an attribute parseConfig needs
Lacking(f) ==
    \/ "type" \notin DOMAIN f
    \/ "width" \notin DOMAIN f
    \/ "device_name" \in DOMAIN f /\ "pv_name" \notin DOMAIN f

UnknownType(f) == ~Lacking(f) /\ f.type \notin FieldTypes

WellFormed(f) == ~Lacking(f) /\ f.type \in FieldTypes

\* the one declaration of the document that is not well formed, when the
\* document has exactly one
OnlyFlaw(pl) ==
    /\ ~WellFormed(Declared(pl))
    /\ \A other \in Places \ {pl} : WellFormed(Declared(other))

\* the name a declaration gives its variable
NameOf(f) ==
    IF "device_name" \in DOMAIN f
    THEN f.device_name \o <<":">> \o f.pv_name
    ELSE f.pv_name

\* C23: a field of an unknown type, anywhere in the document, makes the
\* parse fail with an error that names the declaration and the type, and
\* when it fails no variable has been subscribed to, for no field of the
\* document, the earlier ones included
C23_UnknownTypeFailsBeforeAnyBinding ==
    \A pl \in Places :
        parses > 0 /\ OnlyFlaw(pl) /\ UnknownType(Declared(pl)) =>
            /\ parse_exc.name = "FieldParseError"
            /\ parse_exc.field.pv_name = NameOf(Declared(pl))
            /\ parse_exc.message
                   = <<"undefined widget type", Declared(pl).type>>
            /\ bindings = << >>

\* the declaration is in the error, or is the last thing that was printed
ReportedWith(f) ==
    \/ "field" \in DOMAIN parse_exc /\ parse_exc.field = f
    \/ printed # << >> /\ printed[Len(printed)] = f

\* C24: a declaration without type, without width, or with a device name
\* and no pv_name makes the parse fail, the failure is reported with that
\* declaration, and no page is returned
C24_MissingAttributeIsReported ==
    \A pl \in Places :
        parses > 0 /\ OnlyFlaw(pl) /\ Lacking(Declared(pl)) =>
            /\ parse_exc # NoException
            /\ ReportedWith(Declared(pl))
            /\ page = NoPage

\* the declarations of a row whose enable is absent or true, in their order
IsEnabled(f) == "enable" \notin DOMAIN f \/ f.enable

Kept(row) == SelectSeq(row, IsEnabled)

\* the attributes a declaration hands to the constructor of its field
Passed(f) ==
    [k \in DOMAIN f \ {"type", "width", "enable", "device_name"} |->
         IF k = "pv_name" THEN NameOf(f) ELSE f[k]]

\* the columns are the fields of the declarations, one for one
RowIs(columns, declarations) ==
    /\ Len(columns) = Len(declarations)
    /\ \A i \in 1..Len(declarations) :
           columns[i] = <<"fixed", declarations[i].width,
                          [type |-> declarations[i].type,
                           kwargs |-> Passed(declarations[i])]>>

\* the declarations of the rows r, r + 1, ... of a document, row after row
RECURSIVE DeclarationsFrom(_, _)
DeclarationsFrom(doc, r) ==
    IF r > Len(doc) THEN << >> ELSE doc[r] \o DeclarationsFrom(doc, r + 1)

NamesOf(declarations) ==
    [i \in 1..Len(declarations) |-> NameOf(declarations[i])]

\* the rows parseConfig built: those of the page, or the one of the header
RowsBuilt ==
    IF page.kind = "ListBox" THEN page.rows ELSE <<page.columns>>

\* the rows of the document they were built from
RowsRead ==
    IF page.kind = "ListBox" THEN file_doc ELSE <<file_doc[Len(file_doc)]>>

\* C25: a parsed row holds the fields of the declarations whose enable is
\* absent or true, in the order of the declarations; a declaration with
\* enable false gives no field and no subscription, and no constructor is
\* handed the attribute enable
C25_RowsHoldTheEnabledFields ==
    parses > 0 /\ page # NoPage =>
        /\ Len(RowsBuilt) = Len(RowsRead)
        /\ \A r \in 1..Len(RowsRead) : RowIs(RowsBuilt[r], Kept(RowsRead[r]))
        /\ bindings = NamesOf(Kept(DeclarationsFrom(file_doc, 1)))

\* a page was parsed from a row that has a field with enable false before a
\* field that is kept
C25_Witness ==
    /\ parses > 0
    /\ page.kind = "ListBox"
    /\ \E r \in 1..Len(file_doc) :
           /\ Len(file_doc[r]) = 2
           /\ ~IsEnabled(file_doc[r][1])
           /\ "enable" \in DOMAIN file_doc[r][2]
           /\ Len(page.rows[r]) = 1

C27_HeaderIsOneRowOfAllFields ==
    parses > 0 /\ header /\ (\A pl \in Places : WellFormed(Declared(pl))) =>
        /\ page.kind = "Columns"
        /\ RowIs(page.columns, Kept(DeclarationsFrom(file_doc, 1)))

(***************************************************************************)
(* What the step keys are claimed to add.                                  *)
(***************************************************************************)
\* the power of ten of the digit at the 0-based index p of a numeral: the
\* n-th digit right of the point has -n, the m-th digit left of the point,
\* or from the right end of a numeral without a point, has m - 1
PlaceExponent(numeral, p) ==
    LET point == Find(numeral, ".") IN
    IF point < 0 THEN Len(numeral) - p - 1
    ELSE IF p > point THEN point - p
    ELSE point - p - 1

\* the buffer after a step is the buffer's number plus sign * 10^k, rendered
StepAdds(sign, k) ==
    LET numeral == StripUnit(edit_text, unit) IN
    IF Find(numeral, ".") >= 0
    THEN edit_text' \in
             FormatFixed(FloatAdd(PyFloat(numeral),
                                  IF sign > 0 THEN TenTo(k)
                                  ELSE Negated(TenTo(k))),
                         w_precision, unit)
    ELSE edit_text' = FormatInt(PyInt(numeral) + sign * Pow10(k), unit)

\* a step key on a digit of the buffer of an Editing field, that did not fail
StepOnDigit(key) ==
    /\ editing
    /\ conn
    /\ KeyStep(key)
    /\ edit_pos < Len(edit_text)
    /\ edit_text[edit_pos + 1] \in Digits
    /\ exc' = "none"

\* C30: with the cursor on a digit, the increment step adds and the
\* decrement step subtracts 10^k, k the power of ten of that digit: -n for
\* the n-th digit right of the point, m - 1 for the m-th digit left of the
\* point or from the right end of a buffer without a point, for negative
\* values as for positive ones
C30_StepIsPlaceValue ==
    [][/\ StepOnDigit("up") =>
              StepAdds(1, PlaceExponent(StripUnit(edit_text, unit), edit_pos))
       /\ StepOnDigit("down") =>
              StepAdds(-1, PlaceExponent(StripUnit(edit_text, unit), edit_pos))
      ]_vars

(***************************************************************************)
(* What the loop is claimed to do at its end.                              *)
(***************************************************************************)
\* the PV objects of the page: every field has one, but a button that was
\* given no pv_name
Bindings == IF focus = "button" /\ ~has_pv THEN 0 ELSE 1

\* C28: when the quit key has ended the loop every Binding has been
\* unsubscribed, once, and from then on no connection or value callback
\* changes the state of a field of the page
C28_TeardownUnsubscribes ==
    /\ [](loop = "exited" => unsubscribes = Bindings)
    /\ [][loop = "exited" => fieldstate' = fieldstate]_vars

\* C29: a press of "q" or "Q", whatever field has the focus and whatever its
\* state, is handed back by every widget, changes no field state, writes
\* nothing, and ends the loop
C29_QuitKeyEndsTheLoop ==
    loop_last.key \in {"q", "Q"} =>
        /\ loop_last.reached = loop_last.key
        /\ ~loop_last.changed
        /\ ~loop_last.wrote
        /\ loop = "exited"

\* the quit key was pressed on an Editing field whose pop-up was open, after
\* a step of that field had written
C29_Witness ==
    /\ loop_last.key = "Q"
    /\ loop = "exited"
    /\ editing
    /\ pop_up
    /\ nedits > 0

(***************************************************************************)
(* What the macro pass is claimed to leave of the other indices.           *)
(***************************************************************************)
\* a placeholder of index i at the 1-based index p of the text: "%M", the
\* decimal digits of i, and no further digit, so that "%M10" is a
\* placeholder of index 10 and of no other
PlaceholderAt(text, i, p) ==
    /\ OccursAt(text, Token(i), p)
    /\ LET q == p + Len(Token(i))
       IN  q <= Len(text) => text[q] \notin Digits

\* a value that holds no "%": neither the sentinel nor a token
PlainValue(value) == \A n \in 1..Len(value) : value[n] # "%"

\* the text with the placeholders of index i, each with its suffix KS if it
\* has one, replaced by the value, and everything else as it was
RECURSIVE OnlyIndex(_, _, _, _)
OnlyIndex(text, i, value, p) ==
    IF p > Len(text) THEN << >>
    ELSE IF OccursAt(text, TokenKS(i), p)
    THEN value \o OnlyIndex(text, i, value, p + Len(TokenKS(i)))
    ELSE IF PlaceholderAt(text, i, p)
    THEN value \o OnlyIndex(text, i, value, p + Len(Token(i)))
    ELSE <<text[p]>> \o OnlyIndex(text, i, value, p + 1)

\* C33: the iteration of index i, for a value that holds no token, replaces
\* the placeholders of index i and leaves the placeholders of every other
\* index as they were, %M10 included when i is 1
C33_OtherIndicesLeftIntact ==
    (macroIndex > 0 /\ PlainValue(macro[macroIndex])) =>
        readFile = OnlyIndex(macro_before, macroIndex, macro[macroIndex], 1)

(***************************************************************************)
(* What the step keys are claimed to do on a buffer that ends in a unit.   *)
(***************************************************************************)
\* the cursor is on a character of the unit suffix the buffer ends in
OnUnit(t, p) ==
    /\ unit # << >>
    /\ EndsWithUnit(t)
    /\ p >= Len(t) - Len(unit)
    /\ p < Len(t)

\* the cursor is on a digit of the numeral before the unit suffix
OnDigitBeforeUnit(t, p) ==
    /\ unit # << >>
    /\ EndsWithUnit(t)
    /\ p < Len(t) - Len(unit)
    /\ t[p + 1] \in Digits

\* the step the same key takes at the same cursor position on the same
\* numeral without the unit
AsWithoutUnit(sign) ==
    LET numeral == StripUnit(edit_text, unit)
    IN  StepAdds(sign, StepExponent(numeral, edit_pos, Find(numeral, ".")))

\* a step key on a connected field in Editing
SteppedWithUnit(key) == editing /\ conn /\ KeyStep(key)

\* C34, first half: with the cursor on a digit, a step on a buffer with a
\* unit suffix changes the value by what the same step changes it by on the
\* buffer without the unit, with or without a decimal point
C34_SameMagnitude ==
    /\ (SteppedWithUnit("up") /\ OnDigitBeforeUnit(edit_text, edit_pos)
            /\ exc' = "none") => AsWithoutUnit(1)
    /\ (SteppedWithUnit("down") /\ OnDigitBeforeUnit(edit_text, edit_pos)
            /\ exc' = "none") => AsWithoutUnit(-1)

\* C34, second half: a step with the cursor on a character of the unit
\* changes nothing and writes nothing
C34_NoStepOnUnit ==
    (editing /\ conn /\ StepKeyStep /\ OnUnit(edit_text, edit_pos))
        => (UNCHANGED <<edit_text, edit_pos>> /\ puts' = << >>)

\* C34: the step magnitude and the positions at which a step does nothing
\* do not depend on the unit suffix: on a digit the step changes the value
\* by the amount it changes the unit-free buffer by, integer buffers
\* included, and on a unit character it changes nothing and writes nothing
C34_StepIgnoresUnit == [][C34_SameMagnitude /\ C34_NoStepOnUnit]_vars

(***************************************************************************)
(* What a value notification is claimed to leave of an edit in progress.   *)
(***************************************************************************)
\* C35: a value notification that finds the field Editing leaves it
\* Editing and leaves the buffer and the cursor of the edit in progress as
\* they were, so that the next commit writes what the user typed
C35_ValueKeepsEditInProgress ==
    [][(editing /\ conn /\ last'.op = "value" /\ exc' = "none")
        => (editing' /\ UNCHANGED <<edit_text, edit_pos>>)]_vars

(***************************************************************************)
(* What the refresh alarm is claimed to be armed with.                     *)
(***************************************************************************)
\* C32: from the construction of the page to the end of the loop exactly
\* one refresh alarm is pending, and its period is the one given on the
\* command line, for a document found in the documents directory as for a
\* document taken as a literal path, also after every tick
C32_AlarmHasRequestedPeriod ==
    screen \in {"constructed", "running"} => alarms = <<args_time>>

(***************************************************************************)
(* What an increment followed by a decrement is claimed to give.           *)
(***************************************************************************)
\* the latest two step keys were an increment on a digit and then a
\* decrement, the cursor at the decrement where it was at the increment
UpThenDown ==
    /\ Len(steps) >= 2
    /\ LET a == steps[Len(steps) - 1]
           b == steps[Len(steps)]
       IN  /\ a.key = "up"
           /\ b.key = "down"
           /\ a.pos < Len(a.text)
           /\ a.text[a.pos + 1] \in Digits
           /\ b.pos = a.pos

\* C36: an increment step on a digit followed by a decrement step with the
\* cursor at the same position leaves the buffer the increment found and
\* writes its value last, also when the carry changed the number of
\* characters of the buffer or the sign of the value
C36_UpThenDownRestores ==
    UpThenDown =>
        LET a == steps[Len(steps) - 1]
        IN  /\ edit_text = a.text
            /\ puts = <<PyFloat(StripUnit(a.text, unit))>>

(***************************************************************************)
(* What the threads are claimed to write.                                  *)
(***************************************************************************)
\* C31, first half: the state of a field is written by the thread of the
\* event loop only; a callback of the provider writes none of it
C31_OnlyTheLoopWrites == writer # "provider"

\* C31, second half: the buffer a key handler replaces is the buffer it
\* read: no callback changed it between the read and the write
C31_NoLostUpdate == ~overwritten

\* C31: the provider's callbacks do not write the state of a field, which
\* the thread of the event loop alone writes, and so no key handler finds
\* the buffer changed by a callback between its read of the buffer and its
\* write of the new buffer
C31_SingleWriter == C31_OnlyTheLoopWrites /\ C31_NoLostUpdate

====
